---- MODULE Spec2Model ----
(***************************************************************************)
(* State-machine model of the plant simulation core: the resource store   *)
(* (src/core/state.ts), the graph helpers (utils/graph), the hydraulics    *)
(* and metabolism systems, the climate driver, the growth heuristic and    *)
(* the tick of the scheduler.                                              *)
(*                                                                         *)
(* Numbers.  Every real-valued field of the program (pressure,             *)
(* concentration, health, stress, radius, sugar, ...) is held as an        *)
(* integer count of millionths (SCALE = 10^6), and every product is        *)
(* floored to a millionth, so 0.95 is 950000 and a radius of 0.04 m is     *)
(* 40000.  Positions are held in grid tiles (one tile is                   *)
(* TILE_SIZE / PIXELS_PER_METER = 0.25 m): every caller of the store       *)
(* places segments on the tile grid.  Segment ids are the integers N of    *)
(* the program's "node_N" strings; NULL (0) is the program's null.         *)
(***************************************************************************)
EXTENDS Integers, Sequences, FiniteSets, TLC

(***************************************************************************)
(* Bounds of the model (not program constants).                            *)
(***************************************************************************)
\* ids the store may hand out in one run: generateId stops being called at MaxId
MaxId == 3
\* completed ticks in one run
MaxTick == 1
\* Math.random() rolls that may come out "true" in one run
MaxRolls == 1
\* player reinforcement / harden / modifyResources calls in one run
MaxEdits == 1

\* SpecStore: the largest id handed out and the number of calls other than
\* add / remove / extend
MaxStoreId == 4

MaxStoreEdits == 1

\* ids the player's structural calls may use in SpecGraft
MaxGraftId == 5

\* reinforced plants: THICKEN edits per segment, ticks of the stem run and of
\* the fork run
MaxThicken == 35

MaxStemTicks == 2

MaxForkTicks == 10000

\* the roll sites of one system above which only the two extreme outcomes of
\* its rolls are explored: none comes out true, or all do
MaxRollSites == 4

\* SpecMarkers: the leaves under the seed, the ticks of saturated spawning that
\* may precede the run, the ticks of the run and its successful rolls
MaxBranches == 38
MaxAged == 18
MaxMarkerTicks == 2
MaxMarkerRolls == 80

(***************************************************************************)
(* Fixed-point arithmetic.                                                 *)
(***************************************************************************)
SCALE == 1000 * 1000

Max(a, b) == IF a >= b THEN a ELSE b

Min(a, b) == IF a <= b THEN a ELSE b

Abs(a) == IF a >= 0 THEN a ELSE 0 - a

\* floor(x * n / d) for x >= 0, n >= 0, d > 0 without leaving 32 bits
Frac(x, n, d) == (x \div d) * n + ((x % d) * n) \div d

\* floor(a * b / SCALE) for a, b >= 0: the product of two fixed-point numbers
MulU(a, b) ==
    LET a1 == a \div 1000
        a0 == a % 1000
        b1 == b \div 1000
        b0 == b % 1000
    IN a1 * b1 + ((a1 * b0 + a0 * b1) + ((a0 * b0) \div 1000)) \div 1000

(***************************************************************************)
(* CONFIG (config.ts): values in millionths unless stated otherwise.       *)
(***************************************************************************)
TICKS_PER_SECOND == 20
SECONDS_PER_DAY == 60
\* sugar units
INITIAL_SUGAR == 100
INITIAL_WATER == 30
INITIAL_MINERALS == 20
COST_LEAF == 10
COST_BRANCH == 15
COST_ROOT == 12
COST_TRUNK == 20
COST_HARDEN == 5
\* metres, in millionths
SEED_RADIUS == 30000
LEAF_RADIUS == 15000
BRANCH_RADIUS == 20000
ROOT_RADIUS == 18000
TRUNK_RADIUS == 40000
TRANSPIRATION_RATE == 30000
ROOT_UPTAKE_RATE == 120000
WATER_FLOW_RATE == 400000
FLOW_THRESHOLD == 3000
SUGAR_DIFFUSION_RATE == 200000
NODE_RESPIRATION_COST == 2000
PHOTOSYNTHESIS_RATE == 500000
WATER_PER_SUGAR == 300000
MIN_WATER_FOR_PHOTOSYNTHESIS == 150000
MAX_CHILDREN_PER_NODE == 4
STARVATION_STRESS_RATE == 5000
DEHYDRATION_STRESS_RATE == 5000
HEALTH_RECOVERY_RATE == 20000
STRESS_DEATH_THRESHOLD == 1000000
PARTICLE_SPEED == 1200000
\* hydraulics.ts
MAX_TOTAL_PARTICLES == 150
MAX_PARTICLES_PER_CONNECTION == 2

NULL == 0

NodeTypes == {"SEED", "ROOT", "TRUNK", "BRANCH", "LEAF"}

VARIABLES
    state,                    \* the store's GameState: nodes, seedId, resources, climate, selection, pause, speed
    nextId,                   \* state.ts: the id generator's counter
    particles,                \* hydraulics.ts: the live flow markers, in insertion order
    connectionParticleCounts, \* hydraulics.ts: cached marker count per "from->to" key
    pc,                       \* position inside tick(): "idle" between ticks
    events,                   \* events emitted to the listeners by the last step, oldest first
    lastOp,                   \* the last store call or tick phase, its arguments and its return value
    autoGrowEnabled,          \* autogrow.ts
    ticksSinceLastGrowth,     \* autogrow.ts
    rollsLeft,                \* how many more Math.random() rolls may succeed (model bound)
    editsLeft,                \* how many more calls other than add / remove / extend may be issued (model bound)
    tickLimit,                \* the tick count at which the run stops (model bound)
    idLimit,                  \* the largest id generateId may hand out (model bound)
    accumulator,              \* loop.ts: simulated time not yet turned into ticks, in thousandths of a millisecond
    isRunning,                \* loop.ts: whether the scheduler loop has been started
    lastTickAge,              \* loop.ts: performance.now() - lastTickTime, in thousandths of a millisecond
    animationFrameId,         \* loop.ts: "null", or the handle of a callback that is "pending" or has "fired"
    orphanFrames,             \* pending callbacks of requestAnimationFrame whose handle loop.ts no longer holds
    frameKind                 \* history: "paused" once a callback has found the store paused
                              \* after a wait, "resumed" for the first callback after those
                              \* that finds it running, "ran" otherwise, "none" at the start

vars == <<state, nextId, particles, connectionParticleCounts, pc, events, lastOp,
          autoGrowEnabled, ticksSinceLastGrowth, rollsLeft, editsLeft, tickLimit, idLimit,
          accumulator, isRunning, lastTickAge, animationFrameId, orphanFrames, frameKind>>

(***************************************************************************)
(* state.ts                                                                *)
(***************************************************************************)
\* createInitialState with generateId() = id
createInitialState(id) ==
    [ nodes |-> (id :> [ id |-> id,
                         type |-> "SEED",
                         position |-> <<0, 0>>,
                         parentId |-> NULL,
                         childrenIds |-> <<>>,
                         radius |-> SEED_RADIUS,
                         structuralHealth |-> SCALE,
                         waterPressure |-> 500000,
                         sugarConcentration |-> 800000,
                         sugarStore |-> INITIAL_SUGAR * SCALE,
                         isActive |-> TRUE,
                         stressLevel |-> 0 ]),
      seedId |-> id,
      resources |-> [ sugar |-> INITIAL_SUGAR * SCALE,
                      water |-> INITIAL_WATER * SCALE,
                      minerals |-> INITIAL_MINERALS * SCALE ],
      climate |-> [ sunIntensity |-> 500000,
                    sunAngle |-> 785398,
                    temperature |-> 20 * SCALE,
                    humidity |-> 500000,
                    soilWater |-> 900000,
                    isRaining |-> TRUE,
                    dayProgress |-> 250000,
                    day |-> 1,
                    tick |-> 0 ],
      selectedNodeId |-> NULL,
      isPaused |-> FALSE,
      speedMultiplier |-> SCALE ]

getNodeCost(type) ==
    CASE type = "LEAF" -> COST_LEAF * SCALE
      [] type = "BRANCH" -> COST_BRANCH * SCALE
      [] type = "ROOT" -> COST_ROOT * SCALE
      [] type = "TRUNK" -> COST_TRUNK * SCALE
      [] OTHER -> 0

getDefaultRadius(type) ==
    CASE type = "LEAF" -> LEAF_RADIUS
      [] type = "BRANCH" -> BRANCH_RADIUS
      [] type = "ROOT" -> ROOT_RADIUS
      [] type = "TRUNK" -> TRUNK_RADIUS
      [] type = "SEED" -> SEED_RADIUS
      [] OTHER -> 20000

\* The result of a store call: the new store, the id counter, the events it
\* emitted and its return value.
Result(st, nid, evs, ret) == [state |-> st, nextId |-> nid, events |-> evs, ret |-> ret]

\* the PlantNode literal of addNode
createdNode(st, nid, parentId, type, position, radius) ==
    LET parent == st.nodes[parentId]
    IN [ id |-> nid,
         type |-> type,
         position |-> position,
         parentId |-> parentId,
         childrenIds |-> <<>>,
         radius |-> IF radius = NULL THEN getDefaultRadius(type) ELSE radius,
         structuralHealth |-> SCALE,
         waterPressure |-> Max(300000, Frac(parent.waterPressure, 95, 100)),
         sugarConcentration |-> Max(200000, Frac(parent.sugarConcentration, 9, 10)),
         sugarStore |-> 0,
         isActive |-> TRUE,
         stressLevel |-> 0 ]

\* a faulty addNode without the sugar check: the store's resources floor at 0
addNodeIgnoresSugar(st, nid, parentId, type, position, radius) ==
    IF parentId \notin DOMAIN st.nodes
    THEN Result(st, nid, <<>>, NULL)
    ELSE
        LET node == createdNode(st, nid, parentId, type, position, radius)
            nodes1 == (nid :> node) @@ st.nodes
            nodes2 == [nodes1 EXCEPT ![parentId].childrenIds = Append(@, nid)]
        IN Result([st EXCEPT !.nodes = nodes2,
                             !.resources.sugar = Max(0, @ - getNodeCost(type))],
                  nid + 1,
                  <<"node:added", "resources:changed">>,
                  nid)

\* a faulty addNode that puts the new id first in the parent's child list
addNodePrepends(st, nid, parentId, type, position, radius) ==
    IF parentId \notin DOMAIN st.nodes
    THEN Result(st, nid, <<>>, NULL)
    ELSE IF st.resources.sugar < getNodeCost(type)
    THEN Result(st, nid, <<>>, NULL)
    ELSE
        LET node == createdNode(st, nid, parentId, type, position, radius)
            nodes1 == (nid :> node) @@ st.nodes
            nodes2 == [nodes1 EXCEPT ![parentId].childrenIds = <<nid>> \o @]
        IN Result([st EXCEPT !.nodes = nodes2,
                             !.resources.sugar = @ - getNodeCost(type)],
                  nid + 1,
                  <<"node:added", "resources:changed">>,
                  nid)

\* addNode(parentId, type, position, radius?): radius = NULL when the caller passes none
addNode(st, nid, parentId, type, position, radius) ==
    IF parentId \notin DOMAIN st.nodes
    THEN Result(st, nid, <<>>, NULL)
    ELSE IF st.resources.sugar < getNodeCost(type)
    THEN Result(st, nid, <<>>, NULL)
    ELSE
        LET node == createdNode(st, nid, parentId, type, position, radius)
            nodes1 == (nid :> node) @@ st.nodes
            nodes2 == [nodes1 EXCEPT ![parentId].childrenIds = Append(@, nid)]
        IN Result([st EXCEPT !.nodes = nodes2,
                             !.resources.sugar = @ - getNodeCost(type)],
                  nid + 1,
                  <<"node:added", "resources:changed">>,
                  nid)

\* the ids removeRecursive(id) deletes, walking childrenIds of the table as it is
RECURSIVE removeRecursiveSeq(_, _, _)
removeRecursiveSeq(nodes, ids, fuel) ==
    IF ids = <<>> \/ fuel = 0
    THEN {}
    ELSE LET id == Head(ids)
         IN IF id \notin DOMAIN nodes
            THEN removeRecursiveSeq(nodes, Tail(ids), fuel - 1)
            ELSE {id} \cup removeRecursiveSeq(nodes, nodes[id].childrenIds \o Tail(ids), fuel - 1)

\* a faulty removeNode that leaves the removed id in its parent's child list
removeNodeKeepsLink(st, nid, nodeId) ==
    IF nodeId \notin DOMAIN st.nodes
    THEN Result(st, nid, <<>>, FALSE)
    ELSE IF st.nodes[nodeId].type = "SEED"
    THEN Result(st, nid, <<>>, FALSE)
    ELSE
        LET gone == removeRecursiveSeq(st.nodes, <<nodeId>>, 4 * Cardinality(DOMAIN st.nodes) + 4)
        IN Result([st EXCEPT !.nodes = [id \in (DOMAIN st.nodes) \ gone |-> st.nodes[id]]],
                  nid, <<"node:removed">>, TRUE)

\* a faulty removeNode that deletes the segment but not its descendants
removeNodeShallow(st, nid, nodeId) ==
    IF nodeId \notin DOMAIN st.nodes
    THEN Result(st, nid, <<>>, FALSE)
    ELSE IF st.nodes[nodeId].type = "SEED"
    THEN Result(st, nid, <<>>, FALSE)
    ELSE
        LET node == st.nodes[nodeId]
            keep(id) == id # nodeId
            nodes1 == IF node.parentId # NULL /\ node.parentId \in DOMAIN st.nodes
                      THEN [st.nodes EXCEPT ![node.parentId].childrenIds = SelectSeq(@, keep)]
                      ELSE st.nodes
            nodes2 == [id \in (DOMAIN nodes1) \ {nodeId} |-> nodes1[id]]
        IN Result([st EXCEPT !.nodes = nodes2], nid, <<"node:removed">>, TRUE)

\* removeNode(nodeId)
removeNode(st, nid, nodeId) ==
    IF nodeId \notin DOMAIN st.nodes
    THEN Result(st, nid, <<>>, FALSE)
    ELSE IF st.nodes[nodeId].type = "SEED"
    THEN Result(st, nid, <<>>, FALSE)
    ELSE
        LET node == st.nodes[nodeId]
            keep(id) == id # nodeId
            nodes1 == IF node.parentId # NULL /\ node.parentId \in DOMAIN st.nodes
                      THEN [st.nodes EXCEPT ![node.parentId].childrenIds = SelectSeq(@, keep)]
                      ELSE st.nodes
            gone == removeRecursiveSeq(nodes1, <<nodeId>>, 4 * Cardinality(DOMAIN nodes1) + 4)
            nodes2 == [id \in (DOMAIN nodes1) \ gone |-> nodes1[id]]
        IN Result([st EXCEPT !.nodes = nodes2], nid, <<"node:removed">>, TRUE)

\* updateNode(nodeId, updates): updates is a record of the fields to overwrite;
\* the function is void, its return value is undefined on both paths
updateNode(st, nodeId, updates) ==
    IF nodeId \notin DOMAIN st.nodes
    THEN [state |-> st, events |-> <<>>, ret |-> NULL]
    ELSE [state |-> [st EXCEPT !.nodes[nodeId] = updates @@ @],
          events |-> <<"node:updated">>, ret |-> NULL]

\* a faulty modifyResources that does not clamp at 0
modifyResourcesUnclamped(st, delta) ==
    LET f(name) == IF name \in DOMAIN delta
                   THEN st.resources[name] + delta[name]
                   ELSE st.resources[name]
    IN [state |-> [st EXCEPT !.resources = [sugar |-> f("sugar"),
                                            water |-> f("water"),
                                            minerals |-> f("minerals")]],
        events |-> <<"resources:changed">>, ret |-> NULL]

\* modifyResources(delta): delta is a record with some of sugar, water, minerals
modifyResources(st, delta) ==
    LET f(name) == IF name \in DOMAIN delta
                   THEN Max(0, st.resources[name] + delta[name])
                   ELSE st.resources[name]
    IN [state |-> [st EXCEPT !.resources = [sugar |-> f("sugar"),
                                            water |-> f("water"),
                                            minerals |-> f("minerals")]],
        events |-> <<"resources:changed">>]

\* the PlantNode literal of extendNode
extendedNode(st, nid, nodeId, direction) ==
    LET node == st.nodes[nodeId]
    IN [ id |-> nid,
         type |-> node.type,
         position |-> <<node.position[1] + direction[1], node.position[2] + direction[2]>>,
         parentId |-> nodeId,
         childrenIds |-> node.childrenIds,
         radius |-> Frac(node.radius, 95, 100),
         structuralHealth |-> SCALE,
         waterPressure |-> Frac(node.waterPressure, 98, 100),
         sugarConcentration |-> Frac(node.sugarConcentration, 98, 100),
         sugarStore |-> 0,
         isActive |-> TRUE,
         stressLevel |-> 0 ]

\* the table after extendNode's writes: the children of nodeId that `moved`
\* holds are reparented and shifted, nodeId keeps the new segment only
extendedNodes(st, nid, nodeId, direction, moved) ==
    LET shift(p) == <<p[1] + direction[1], p[2] + direction[2]>>
        nodes1 == [id \in DOMAIN st.nodes |->
                      IF id \in moved
                      THEN [st.nodes[id] EXCEPT !.parentId = nid, !.position = shift(@)]
                      ELSE IF id = nodeId
                      THEN [st.nodes[id] EXCEPT !.childrenIds = <<nid>>]
                      ELSE st.nodes[id]]
    IN (nid :> extendedNode(st, nid, nodeId, direction)) @@ nodes1

\* a faulty extendNode that leaves the children's parent pointers alone
extendNodeKeepsParents(st, nid, nodeId, direction) ==
    IF nodeId \notin DOMAIN st.nodes
    THEN Result(st, nid, <<>>, NULL)
    ELSE IF st.nodes[nodeId].type \notin {"TRUNK", "BRANCH", "ROOT"}
    THEN Result(st, nid, <<>>, NULL)
    ELSE IF st.resources.sugar < getNodeCost(st.nodes[nodeId].type)
    THEN Result(st, nid, <<>>, NULL)
    ELSE Result([st EXCEPT !.nodes = extendedNodes(st, nid, nodeId, direction, {}),
                           !.resources.sugar = @ - getNodeCost(st.nodes[nodeId].type)],
                nid + 1,
                <<"node:added", "resources:changed">>,
                nid)

\* a faulty extendNode that reparents the children before it checks the sugar
extendNodeChecksLate(st, nid, nodeId, direction) ==
    IF nodeId \notin DOMAIN st.nodes
    THEN Result(st, nid, <<>>, NULL)
    ELSE IF st.nodes[nodeId].type \notin {"TRUNK", "BRANCH", "ROOT"}
    THEN Result(st, nid, <<>>, NULL)
    ELSE
        LET node == st.nodes[nodeId]
            kids == {node.childrenIds[i] : i \in DOMAIN node.childrenIds} \cap DOMAIN st.nodes
            moved == [id \in DOMAIN st.nodes |->
                         IF id \in kids THEN [st.nodes[id] EXCEPT !.parentId = nid]
                         ELSE st.nodes[id]]
        IN IF st.resources.sugar < getNodeCost(node.type)
           THEN Result([st EXCEPT !.nodes = moved], nid, <<>>, NULL)
           ELSE Result([st EXCEPT !.nodes = extendedNodes(st, nid, nodeId, direction, kids),
                                  !.resources.sugar = @ - getNodeCost(node.type)],
                       nid + 1,
                       <<"node:added", "resources:changed">>,
                       nid)

\* extendNode(nodeId, direction): direction in tiles
extendNode(st, nid, nodeId, direction) ==
    IF nodeId \notin DOMAIN st.nodes
    THEN Result(st, nid, <<>>, NULL)
    ELSE IF st.nodes[nodeId].type \notin {"TRUNK", "BRANCH", "ROOT"}
    THEN Result(st, nid, <<>>, NULL)
    ELSE IF st.resources.sugar < getNodeCost(st.nodes[nodeId].type)
    THEN Result(st, nid, <<>>, NULL)
    ELSE
        LET node == st.nodes[nodeId]
            kids == {node.childrenIds[i] : i \in DOMAIN node.childrenIds} \cap DOMAIN st.nodes
        IN Result([st EXCEPT !.nodes = extendedNodes(st, nid, nodeId, direction, kids),
                             !.resources.sugar = @ - getNodeCost(node.type)],
                  nid + 1,
                  <<"node:added", "resources:changed">>,
                  nid)

\* selectNode(nodeId)
selectNode(st, nodeId) ==
    [state |-> [st EXCEPT !.selectedNodeId = nodeId], events |-> <<"selection:changed">>]

(***************************************************************************)
(* Helpers of the per-tick systems.  A system reads the live node objects  *)
(* while it loops over Object.values(state.nodes), which lists the nodes   *)
(* in insertion order, that is by ascending id.  The accumulator carries   *)
(* the store, the events emitted so far and the marker spawns whose        *)
(* Math.random() roll has still to be drawn: markers never feed back into  *)
(* the store, so the rolls are drawn after the loop.                       *)
(***************************************************************************)
\* Object.values(state.nodes): the ids in insertion order
nodeOrder(nodes) ==
    LET S == DOMAIN nodes
    IN [i \in 1..Cardinality(S) |-> CHOOSE x \in S : Cardinality({y \in S : y < x}) = i - 1]

Acc(st) == [state |-> st, events |-> <<>>, requests |-> <<>>]

\* statement sequencing: v is evaluated once, to its end, and F goes on from its value
Then(v, F(_)) == CHOOSE r \in {F(x) : x \in {v}} : TRUE

\* updateNode inside a system
Upd(acc, nodeId, updates) ==
    LET r == updateNode(acc.state, nodeId, updates)
    IN [acc EXCEPT !.state = r.state, !.events = @ \o r.events]

\* modifyResources inside a system
ModRes(acc, delta) ==
    LET r == modifyResources(acc.state, delta)
    IN [acc EXCEPT !.state = r.state, !.events = @ \o r.events]

\* a guarded "Math.random() < p" spawnParticle call site that was reached
Req(acc, fromNodeId, toNodeId, type, speed) ==
    [acc EXCEPT !.requests = Append(@, [fromNodeId |-> fromNodeId, toNodeId |-> toNodeId,
                                        type |-> type, speed |-> speed])]

(***************************************************************************)
(* utils/graph                                                             *)
(***************************************************************************)
\* getChildren(state, node): the child ids that are in the table, in list order
getChildren(st, nodeId) ==
    LET present(id) == id \in DOMAIN st.nodes
    IN SelectSeq(st.nodes[nodeId].childrenIds, present)

\* getNodesByType(state, type), as ids in table order
getNodesByType(st, type) ==
    LET isType(id) == st.nodes[id].type = type
    IN SelectSeq(nodeOrder(st.nodes), isType)

\* getDescendants(state, node), as the set of ids it returns
RECURSIVE getDescendantsStack(_, _, _)
getDescendantsStack(st, stack, fuel) ==
    IF stack = <<>> \/ fuel = 0
    THEN {}
    ELSE LET current == stack[Len(stack)]
             rest == SubSeq(stack, 1, Len(stack) - 1)
         IN {current} \cup getDescendantsStack(st, rest \o getChildren(st, current), fuel - 1)

getDescendants(st, nodeId) ==
    getDescendantsStack(st, getChildren(st, nodeId), 4 * Cardinality(DOMAIN st.nodes) + 4)

(***************************************************************************)
(* systems/climate.ts                                                      *)
(***************************************************************************)
\* floor(n * SCALE / d) for 0 <= n, 0 < d <= 2 * SCALE
DivU(n, d) ==
    LET r0 == n % d
        d1 == (r0 * 1000) \div d
        r1 == (r0 * 1000) % d
        d2 == (r1 * 1000) \div d
    IN (n \div d) * SCALE + d1 * 1000 + d2

\* Math.sin(PI * x) for 0 <= x <= 1 (x in millionths), by Bhaskara's rational
\* approximation 16x(1-x) / (5 - 4x(1-x)): exact at 0, 1/6, 1/2, 5/6 and 1,
\* within 0.0017 elsewhere
SinPi(x) ==
    LET q == MulU(x, SCALE - x)
    IN Min(SCALE, DivU(4 * q, 1250000 - q))

\* Math.sin(PI * x) for -1 <= x < 3, as sign and magnitude
SinPiSign(x) == IF x < 0 \/ (x > SCALE /\ x < 2 * SCALE) THEN -1 ELSE 1

SinPiMag(x) ==
    IF x < 0 THEN SinPi(0 - x)
    ELSE IF x <= SCALE THEN SinPi(x)
    ELSE IF x < 2 * SCALE THEN SinPi(x - SCALE)
    ELSE SinPi(x - 2 * SCALE)

BASE_TEMPERATURE == 20
TEMPERATURE_AMPLITUDE == 10
MIN_SUN_INTENSITY == 0
RAIN_WATER_RATE == 50000
EVAPORATION_RATE == 1000

\* the sun intensity without the clamps at 0 and at MIN_SUN_INTENSITY
sunIntensityAtUnclamped(dayProgress) ==
    IF dayProgress < 250000
    THEN Frac(SinPiSign(2 * dayProgress) * SinPiMag(2 * dayProgress), 8, 10)
    ELSE IF dayProgress < 750000
    THEN SinPi(dayProgress)
    ELSE SinPiSign(2 * dayProgress) * Frac(SinPiMag(2 * dayProgress), 3, 10)

\* the sun intensity updateClimateSystem derives from the day fraction
sunIntensityAt(dayProgress) ==
    LET raw == IF dayProgress < 250000
               THEN Frac(SinPiSign(2 * dayProgress) * SinPiMag(2 * dayProgress), 8, 10)
               ELSE IF dayProgress < 750000
               THEN SinPi(dayProgress)
               ELSE Max(0, SinPiSign(2 * dayProgress) * Frac(SinPiMag(2 * dayProgress), 3, 10))
    IN Max(MIN_SUN_INTENSITY, raw)

\* the soil water dynamics without the clamps
soilWaterDynamicsUnclamped(soilWater, isRaining, evapFactor) ==
    IF isRaining
    THEN soilWater + RAIN_WATER_RATE
    ELSE soilWater - MulU(EVAPORATION_RATE, evapFactor)

\* updateClimateSystem(), "Soil water dynamics": rain fills the soil, sun and
\* warmth dry it
soilWaterDynamics(soilWater, isRaining, evapFactor) ==
    IF isRaining
    THEN Min(SCALE, soilWater + RAIN_WATER_RATE)
    ELSE Max(0, soilWater - MulU(EVAPORATION_RATE, evapFactor))

\* updateClimateSystem() without the test that the stored fraction was near the end of a day
updateClimateSystemAnyFall(st, rainRoll) ==
    LET climate == st.climate
        ticksPerDay == TICKS_PER_SECOND * SECONDS_PER_DAY
        dayProgress == Frac(climate.tick % ticksPerDay, SCALE, ticksPerDay)
        isNewDay == dayProgress < climate.dayProgress
        day == IF isNewDay THEN climate.day + 1 ELSE climate.day
        sunAngle == MulU(dayProgress, 6283185)
        sunIntensity == sunIntensityAt(dayProgress)
        tx == 2 * dayProgress - 300000
        temperature == BASE_TEMPERATURE * SCALE
                       + SinPiSign(tx) * (TEMPERATURE_AMPLITUDE * SinPiMag(tx))
        hx == 2 * dayProgress + 500000
        humidity == 500000 + SinPiSign(hx) * Frac(SinPiMag(hx), 3, 10)
        isRaining == IF rainRoll THEN ~climate.isRaining ELSE climate.isRaining
        evapFactor == MulU(sunIntensity, temperature \div 30)
        soilWater == soilWaterDynamics(climate.soilWater, isRaining, evapFactor)
    IN [state |-> [st EXCEPT !.climate = [ sunIntensity |-> sunIntensity,
                                           sunAngle |-> sunAngle,
                                           temperature |-> temperature,
                                           humidity |-> humidity,
                                           soilWater |-> soilWater,
                                           isRaining |-> isRaining,
                                           dayProgress |-> dayProgress,
                                           day |-> day,
                                           tick |-> climate.tick ]],
        events |-> <<"climate:updated">>]

\* updateClimateSystem(): rainRoll is the outcome of its Math.random() < chance
updateClimateSystem(st, rainRoll) ==
    LET climate == st.climate
        ticksPerDay == TICKS_PER_SECOND * SECONDS_PER_DAY
        dayProgress == Frac(climate.tick % ticksPerDay, SCALE, ticksPerDay)
        isNewDay == dayProgress < climate.dayProgress /\ climate.dayProgress > 900000
        day == IF isNewDay THEN climate.day + 1 ELSE climate.day
        sunAngle == MulU(dayProgress, 6283185)
        sunIntensity == sunIntensityAt(dayProgress)
        tx == 2 * dayProgress - 300000
        temperature == BASE_TEMPERATURE * SCALE
                       + SinPiSign(tx) * (TEMPERATURE_AMPLITUDE * SinPiMag(tx))
        hx == 2 * dayProgress + 500000
        humidity == 500000 + SinPiSign(hx) * Frac(SinPiMag(hx), 3, 10)
        isRaining == IF rainRoll THEN ~climate.isRaining ELSE climate.isRaining
        evapFactor == MulU(sunIntensity, temperature \div 30)
        soilWater == soilWaterDynamics(climate.soilWater, isRaining, evapFactor)
    IN [state |-> [st EXCEPT !.climate = [ sunIntensity |-> sunIntensity,
                                           sunAngle |-> sunAngle,
                                           temperature |-> temperature,
                                           humidity |-> humidity,
                                           soilWater |-> soilWater,
                                           isRaining |-> isRaining,
                                           dayProgress |-> dayProgress,
                                           day |-> day,
                                           tick |-> climate.tick ]],
        events |-> <<"climate:updated">>]

\* getSoilWaterAtDepth(depth): depth in millionths of a metre
getSoilWaterAtDepth(st, depth) ==
    LET depthFactor == Min(SCALE, depth \div 2)
        depthBonus == Frac(depthFactor, 3, 10)
    IN Min(SCALE, st.climate.soilWater + depthBonus)

(***************************************************************************)
(* systems/hydraulics.ts                                                   *)
(***************************************************************************)
\* one iteration of processTranspiration's loop
transpirationStep(acc, id, transpFactor) ==
    LET node == acc.state.nodes[id]
        waterLoss == MulU(MulU(TRANSPIRATION_RATE, transpFactor), node.radius)
        actualLoss == Min(waterLoss, node.waterPressure - 120000)
        newPressure == Max(120000, node.waterPressure - actualLoss)
    IN IF ~node.isActive THEN acc
       ELSE IF ~(node.type = "LEAF" \/ Len(node.childrenIds) = 0) THEN acc
       ELSE IF ~(node.waterPressure > 150000) THEN acc
       ELSE IF ~(actualLoss > 0) THEN acc
       ELSE LET a1 == Upd(acc, id, [waterPressure |-> newPressure])
            IN IF node.parentId # NULL
               THEN Req(a1, node.parentId, id, "xylem", 800000 + Frac(transpFactor, 1, 2))
               ELSE a1

\* iterations lo..hi of the loop, in order; the range is halved so that a long
\* loop is evaluated in shallow steps
RECURSIVE transpirationLoop(_, _, _, _, _)
transpirationLoop(acc, ids, lo, hi, transpFactor) ==
    IF lo > hi THEN acc
    ELSE IF lo = hi THEN transpirationStep(acc, ids[lo], transpFactor)
    ELSE Then(transpirationLoop(acc, ids, lo, (lo + hi) \div 2, transpFactor),
              LAMBDA next : transpirationLoop(next, ids, (lo + hi) \div 2 + 1, hi, transpFactor))

processTranspiration(st) ==
    LET sunFactor == MulU(st.climate.sunIntensity, SCALE + st.climate.temperature \div 40)
        transpFactor == 200000 + Frac(sunFactor, 8, 10)
    IN Then(nodeOrder(st.nodes),
            LAMBDA ids : transpirationLoop(Acc(st), ids, 1, Len(ids), transpFactor))

\* one iteration of processRootUptake's loop
rootUptakeStep(acc, id) ==
    LET root == acc.state.nodes[id]
        depth == Abs(root.position[2]) * 250000
        soilWater == getSoilWaterAtDepth(acc.state, depth)
        uptake == MulU(MulU(ROOT_UPTAKE_RATE, root.radius),
                       Max(100000, soilWater - root.waterPressure))
        newPressure == Min(SCALE, root.waterPressure + uptake)
    IN IF ~root.isActive THEN acc
       ELSE IF ~(soilWater > 100000 /\ root.waterPressure < 950000) THEN acc
       ELSE IF ~(uptake > 1000) THEN acc
       ELSE LET a1 == Upd(acc, id, [waterPressure |-> newPressure])
                a2 == ModRes(a1, [water |-> uptake * 10])
            IN IF root.parentId # NULL
               THEN Req(a2, id, root.parentId, "xylem", 800000 + Frac(soilWater, 1, 2))
               ELSE a2

RECURSIVE rootUptakeLoop(_, _, _, _)
rootUptakeLoop(acc, ids, lo, hi) ==
    IF lo > hi THEN acc
    ELSE IF lo = hi THEN rootUptakeStep(acc, ids[lo])
    ELSE Then(rootUptakeLoop(acc, ids, lo, (lo + hi) \div 2),
              LAMBDA next : rootUptakeLoop(next, ids, (lo + hi) \div 2 + 1, hi))

processRootUptake(st) ==
    Then(getNodesByType(st, "ROOT"), LAMBDA ids : rootUptakeLoop(Acc(st), ids, 1, Len(ids)))

\* a faulty transfer that moves nothing
xylemActualFlowNone(parent, node) == 0

\* the amount one xylem transfer moves out of the parent
xylemActualFlow(parent, node) ==
    LET pressureDiff == parent.waterPressure - node.waterPressure
        flowCapacity == Min(node.radius, parent.radius)
        flowRate == MulU(MulU(WATER_FLOW_RATE, pressureDiff), flowCapacity)
    IN Min(flowRate, Frac(parent.waterPressure, 1, 2))

\* processXylemFlow's iteration without the transfer loss
xylemStepLossless(acc, id) ==
    LET node == acc.state.nodes[id]
        parent == acc.state.nodes[node.parentId]
        pressureDiff == parent.waterPressure - node.waterPressure
        actualFlow == xylemActualFlow(parent, node)
    IN IF ~node.isActive \/ node.parentId = NULL THEN acc
       ELSE IF node.parentId \notin DOMAIN acc.state.nodes THEN acc
       ELSE IF ~parent.isActive THEN acc
       ELSE IF pressureDiff > FLOW_THRESHOLD
       THEN Upd(Upd(acc, parent.id, [waterPressure |-> parent.waterPressure - actualFlow]),
                id, [waterPressure |-> Min(SCALE, node.waterPressure + actualFlow)])
       ELSE acc

\* processXylemFlow's iteration without the activity test of the child
xylemStepIntoInactive(acc, id) ==
    LET node == acc.state.nodes[id]
        parent == acc.state.nodes[node.parentId]
        pressureDiff == parent.waterPressure - node.waterPressure
        actualFlow == xylemActualFlow(parent, node)
    IN IF node.parentId = NULL \/ node.parentId \notin DOMAIN acc.state.nodes THEN acc
       ELSE IF ~parent.isActive THEN acc
       ELSE IF pressureDiff > FLOW_THRESHOLD
       THEN Upd(Upd(acc, parent.id, [waterPressure |-> parent.waterPressure - actualFlow]),
                id, [waterPressure |-> Min(SCALE, node.waterPressure + Frac(actualFlow, 95, 100))])
       ELSE acc

\* one iteration of processXylemFlow's loop
xylemStep(acc, id) ==
    LET node == acc.state.nodes[id]
        hasParent == node.parentId # NULL /\ node.parentId \in DOMAIN acc.state.nodes
        parent == acc.state.nodes[node.parentId]
    IN IF ~node.isActive \/ node.parentId = NULL THEN acc
       ELSE IF ~hasParent THEN acc
       ELSE IF ~parent.isActive THEN acc
       ELSE
         LET pressureDiff == parent.waterPressure - node.waterPressure
             actualFlow == xylemActualFlow(parent, node)
             a1 == IF pressureDiff > FLOW_THRESHOLD
                   THEN LET u1 == Upd(acc, parent.id,
                                      [waterPressure |-> parent.waterPressure - actualFlow])
                            u2 == Upd(u1, id,
                                      [waterPressure |->
                                          Min(SCALE, node.waterPressure + Frac(actualFlow, 95, 100))])
                        IN IF actualFlow > 500
                           THEN Req(u2, parent.id, id, "xylem", actualFlow * 15)
                           ELSE u2
                   ELSE acc
             parent1 == a1.state.nodes[node.parentId]
             node1 == a1.state.nodes[id]
         IN IF parent1.waterPressure > 100000 \/ node1.waterPressure > 100000
            THEN Req(a1, parent.id, id, "xylem", 800000)
            ELSE a1

RECURSIVE xylemLoop(_, _, _, _)
xylemLoop(acc, ids, lo, hi) ==
    IF lo > hi THEN acc
    ELSE IF lo = hi THEN xylemStep(acc, ids[lo])
    ELSE Then(xylemLoop(acc, ids, lo, (lo + hi) \div 2),
              LAMBDA next : xylemLoop(next, ids, (lo + hi) \div 2 + 1, hi))

processXylemFlow(st) ==
    Then(nodeOrder(st.nodes), LAMBDA ids : xylemLoop(Acc(st), ids, 1, Len(ids)))

\* actualFlow * 15, the speed asked of spawnParticle for a phloem marker: a
\* flow above 1 is passed as 1, which spawnFlowParticle caps to the same
\* marker speed, so that the product does not leave 32 bits
phloemMarkerSpeed(actualFlow) == Min(actualFlow, SCALE) * 15

\* the amount one phloem transfer moves: actualFlow of processPhloemFlow
phloemActualFlow(node, child) ==
    LET concDiff == node.sugarConcentration - child.sugarConcentration
        flowCapacity == Min(node.radius, child.radius)
    IN MulU(MulU(SUGAR_DIFFUSION_RATE, Abs(concDiff)), flowCapacity)

\* the body of processPhloemFlow's inner loop for one (node, child) edge
phloemEdge(acc, id, childId) ==
    LET node == acc.state.nodes[id]
        child == acc.state.nodes[childId]
        concDiff == node.sugarConcentration - child.sugarConcentration
        actualFlow == phloemActualFlow(node, child)
        down == LET u1 == Upd(acc, id,
                              [sugarConcentration |-> node.sugarConcentration - Frac(actualFlow, 1, 2),
                               sugarStore |-> Max(0, node.sugarStore - actualFlow)])
                    u2 == Upd(u1, childId,
                              [sugarConcentration |->
                                   Min(SCALE, child.sugarConcentration + Frac(actualFlow, 45, 100)),
                               sugarStore |-> child.sugarStore + Frac(actualFlow, 9, 10)])
                IN IF actualFlow > 500
                   THEN Req(u2, id, childId, "phloem", phloemMarkerSpeed(actualFlow))
                   ELSE u2
        up == LET u1 == Upd(acc, childId,
                            [sugarConcentration |-> child.sugarConcentration - Frac(actualFlow, 1, 2)])
                  u2 == Upd(u1, id,
                            [sugarConcentration |->
                                 Min(SCALE, node.sugarConcentration + Frac(actualFlow, 45, 100))])
              IN IF actualFlow > 500
                 THEN Req(u2, childId, id, "phloem", phloemMarkerSpeed(actualFlow))
                 ELSE u2
        a1 == IF Abs(concDiff) > FLOW_THRESHOLD
              THEN (IF concDiff > 0 THEN down ELSE up)
              ELSE acc
    IN IF ~child.isActive THEN acc
       ELSE IF a1.state.nodes[id].isActive /\ a1.state.nodes[childId].isActive
            THEN Req(a1, childId, id, "phloem", 700000)
            ELSE a1

RECURSIVE phloemChildren(_, _, _, _, _)
phloemChildren(acc, id, children, lo, hi) ==
    IF lo > hi THEN acc
    ELSE IF lo = hi THEN phloemEdge(acc, id, children[lo])
    ELSE Then(phloemChildren(acc, id, children, lo, (lo + hi) \div 2),
              LAMBDA next : phloemChildren(next, id, children, (lo + hi) \div 2 + 1, hi))

\* one iteration of processPhloemFlow's outer loop
phloemStep(acc, id) ==
    IF ~acc.state.nodes[id].isActive THEN acc
    ELSE Then(getChildren(acc.state, id),
              LAMBDA children : phloemChildren(acc, id, children, 1, Len(children)))

RECURSIVE phloemLoop(_, _, _, _)
phloemLoop(acc, ids, lo, hi) ==
    IF lo > hi THEN acc
    ELSE IF lo = hi THEN phloemStep(acc, ids[lo])
    ELSE Then(phloemLoop(acc, ids, lo, (lo + hi) \div 2),
              LAMBDA next : phloemLoop(next, ids, (lo + hi) \div 2 + 1, hi))

processPhloemFlow(st) ==
    Then(nodeOrder(st.nodes), LAMBDA ids : phloemLoop(Acc(st), ids, 1, Len(ids)))

\* the marker pool: the particles array and the per-connection count cache
Pool(ps, counts) == [particles |-> ps, counts |-> counts]

connectionCount(counts, key) == IF key \in DOMAIN counts THEN counts[key] ELSE 0

\* connectionParticleCounts.set(key, n)
setCount(counts, key, n) == (key :> n) @@ counts

\* connectionParticleCounts.delete(key)
deleteCount(counts, key) == [k \in (DOMAIN counts) \ {key} |-> counts[k]]

\* the FlowParticle literal without the lower clamp of the speed
spawnedParticleUnclamped(fromNodeId, toNodeId, type, speed) ==
    [ fromNodeId |-> fromNodeId,
      toNodeId |-> toNodeId,
      progress |-> 0,
      type |-> type,
      speed |-> Min(3 * SCALE, MulU(speed, PARTICLE_SPEED)) ]

\* the FlowParticle literal of spawnFlowParticle
spawnedParticle(fromNodeId, toNodeId, type, speed) ==
    [ fromNodeId |-> fromNodeId,
      toNodeId |-> toNodeId,
      progress |-> 0,
      type |-> type,
      speed |-> Min(3 * SCALE, MulU(Max(500000, speed), PARTICLE_SPEED)) ]

\* a faulty spawnFlowParticle whose per-connection test lets one more through
spawnFlowParticleOffByOne(pool, fromNodeId, toNodeId, type, speed) ==
    LET connectionKey == <<fromNodeId, toNodeId>>
        count == connectionCount(pool.counts, connectionKey)
    IN IF Len(pool.particles) >= MAX_TOTAL_PARTICLES THEN pool
       ELSE IF count > MAX_PARTICLES_PER_CONNECTION THEN pool
       ELSE Pool(Append(pool.particles, spawnedParticle(fromNodeId, toNodeId, type, speed)),
                 setCount(pool.counts, connectionKey, count + 1))

\* spawnFlowParticle(fromNodeId, toNodeId, type, speed)
spawnFlowParticle(pool, fromNodeId, toNodeId, type, speed) ==
    LET connectionKey == <<fromNodeId, toNodeId>>
        count == connectionCount(pool.counts, connectionKey)
    IN IF Len(pool.particles) >= MAX_TOTAL_PARTICLES THEN pool
       ELSE IF count >= MAX_PARTICLES_PER_CONNECTION THEN pool
       ELSE Pool(Append(pool.particles, spawnedParticle(fromNodeId, toNodeId, type, speed)),
                 setCount(pool.counts, connectionKey, count + 1))

\* a faulty decrementConnectionCount that deletes the entry only when it
\* holds no count
decrementConnectionCountKeepsEntry(counts, fromNodeId, toNodeId) ==
    LET connectionKey == <<fromNodeId, toNodeId>>
        count == connectionCount(counts, connectionKey)
    IN IF count <= 0
       THEN deleteCount(counts, connectionKey)
       ELSE setCount(counts, connectionKey, count - 1)

\* decrementConnectionCount(fromNodeId, toNodeId)
decrementConnectionCount(counts, fromNodeId, toNodeId) ==
    LET connectionKey == <<fromNodeId, toNodeId>>
        count == connectionCount(counts, connectionKey)
    IN IF count <= 1
       THEN deleteCount(counts, connectionKey)
       ELSE setCount(counts, connectionKey, count - 1)

\* updateParticles(state): the filter over the particles array
\* one call of the filter callback of updateParticles
\* updateParticles' filter without the test of the two endpoints
updateParticleKeepsOrphans(st, pool, particle) ==
    LET progress == particle.progress + particle.speed \div TICKS_PER_SECOND
    IN IF progress >= SCALE
       THEN Pool(pool.particles,
                 decrementConnectionCount(pool.counts, particle.fromNodeId, particle.toNodeId))
       ELSE Pool(Append(pool.particles, [particle EXCEPT !.progress = progress]), pool.counts)

updateParticle(st, pool, particle) ==
    LET missing == particle.fromNodeId \notin DOMAIN st.nodes
                   \/ particle.toNodeId \notin DOMAIN st.nodes
        progress == particle.progress + particle.speed \div TICKS_PER_SECOND
    IN IF missing \/ progress >= SCALE
       THEN Pool(pool.particles,
                 decrementConnectionCount(pool.counts, particle.fromNodeId, particle.toNodeId))
       ELSE Pool(Append(pool.particles, [particle EXCEPT !.progress = progress]), pool.counts)

RECURSIVE updateParticlesLoop(_, _, _, _, _)
updateParticlesLoop(st, pool, todo, lo, hi) ==
    IF lo > hi THEN pool
    ELSE IF lo = hi THEN updateParticle(st, pool, todo[lo])
    ELSE Then(updateParticlesLoop(st, pool, todo, lo, (lo + hi) \div 2),
              LAMBDA next : updateParticlesLoop(st, next, todo, (lo + hi) \div 2 + 1, hi))

updateParticles(st, pool) ==
    updateParticlesLoop(st, Pool(<<>>, pool.counts), pool.particles, 1, Len(pool.particles))

\* clearParticles()
clearParticles == Pool(<<>>, <<>>)

\* the spawnParticle calls of one system whose roll came out true, in call order
RECURSIVE spawnChosen(_, _, _, _, _)
spawnChosen(pool, requests, chosen, lo, hi) ==
    IF lo > hi THEN pool
    ELSE IF lo = hi
    THEN IF lo \in chosen
         THEN spawnFlowParticle(pool, requests[lo].fromNodeId, requests[lo].toNodeId,
                                requests[lo].type, requests[lo].speed)
         ELSE pool
    ELSE Then(spawnChosen(pool, requests, chosen, lo, (lo + hi) \div 2),
              LAMBDA next : spawnChosen(next, requests, chosen, (lo + hi) \div 2 + 1, hi))

(***************************************************************************)
(* systems/metabolism.ts                                                   *)
(***************************************************************************)
\* sugarProduced of processPhotosynthesis for one node
sugarProducedBy(st, node) ==
    LET sunFactor == 150000 + Frac(st.climate.sunIntensity, 85, 100)
        waterFactor == Min(SCALE, 2 * node.waterPressure)
        sizeFactor == node.radius * 10
    IN MulU(MulU(MulU(PHOTOSYNTHESIS_RATE, sunFactor), waterFactor), sizeFactor)

\* a faulty iteration that credits the segment but not the global pool
photosynthesisStepKeepsPool(acc, id) ==
    LET node == acc.state.nodes[id]
        sugarProduced == sugarProducedBy(acc.state, node)
        waterCost == MulU(sugarProduced, WATER_PER_SUGAR)
    IN IF ~node.isActive THEN acc
       ELSE IF node.type # "LEAF" /\ Len(node.childrenIds) > 0 THEN acc
       ELSE IF node.waterPressure < MIN_WATER_FOR_PHOTOSYNTHESIS THEN acc
       ELSE IF ~(sugarProduced > 0) THEN acc
       ELSE Upd(acc, id,
                [waterPressure |-> Max(0, node.waterPressure - Frac(waterCost, 1, 10)),
                 sugarStore |-> node.sugarStore + sugarProduced,
                 sugarConcentration |->
                     Min(SCALE, node.sugarConcentration + Frac(sugarProduced, 1, 10))])

\* one iteration of processPhotosynthesis's loop
photosynthesisStep(acc, id) ==
    LET node == acc.state.nodes[id]
        sugarProduced == sugarProducedBy(acc.state, node)
        waterCost == MulU(sugarProduced, WATER_PER_SUGAR)
    IN IF ~node.isActive THEN acc
       ELSE IF node.type # "LEAF" /\ Len(node.childrenIds) > 0 THEN acc
       ELSE IF node.waterPressure < MIN_WATER_FOR_PHOTOSYNTHESIS THEN acc
       ELSE IF ~(sugarProduced > 0) THEN acc
       ELSE LET a1 == Upd(acc, id,
                          [waterPressure |-> Max(0, node.waterPressure - Frac(waterCost, 1, 10)),
                           sugarStore |-> node.sugarStore + sugarProduced,
                           sugarConcentration |->
                               Min(SCALE, node.sugarConcentration + Frac(sugarProduced, 1, 10))])
                a2 == ModRes(a1, [sugar |-> sugarProduced])
            IN IF node.parentId # NULL
               THEN Req(a2, id, node.parentId, "phloem", 600000 + sugarProduced * 3)
               ELSE a2

RECURSIVE photosynthesisLoop(_, _, _, _)
photosynthesisLoop(acc, ids, lo, hi) ==
    IF lo > hi THEN acc
    ELSE IF lo = hi THEN photosynthesisStep(acc, ids[lo])
    ELSE Then(photosynthesisLoop(acc, ids, lo, (lo + hi) \div 2),
              LAMBDA next : photosynthesisLoop(next, ids, (lo + hi) \div 2 + 1, hi))

processPhotosynthesis(st) ==
    Then(nodeOrder(st.nodes), LAMBDA ids : photosynthesisLoop(Acc(st), ids, 1, Len(ids)))

\* respirationCost of processRespiration for one node
respirationCost(node) == MulU(NODE_RESPIRATION_COST, SCALE + node.radius * 5)

\* a faulty iteration that charges the full cost to a buffer that cannot pay it
respirationStepOverdraws(acc, id) ==
    LET node == acc.state.nodes[id]
        cost == respirationCost(node)
    IN IF ~node.isActive THEN acc
       ELSE Upd(acc, id,
                [sugarStore |-> node.sugarStore - cost,
                 sugarConcentration |->
                     Max(0, node.sugarConcentration - Frac(cost, 5, 100))])

\* one iteration of processRespiration's loop
respirationStep(acc, id) ==
    LET node == acc.state.nodes[id]
        cost == respirationCost(node)
        deficit == cost - node.sugarStore
        stressIncrease == MulU(deficit, STARVATION_STRESS_RATE)
    IN IF ~node.isActive THEN acc
       ELSE IF node.sugarStore >= cost
       THEN LET a1 == Upd(acc, id,
                          [sugarStore |-> node.sugarStore - cost,
                           sugarConcentration |->
                               Max(0, node.sugarConcentration - Frac(cost, 5, 100))])
            IN IF node.type = "ROOT" /\ node.parentId # NULL
               THEN Req(a1, node.parentId, id, "phloem", 700000)
               ELSE a1
       ELSE LET a1 == Upd(acc, id,
                          [sugarStore |-> 0,
                           sugarConcentration |-> Max(0, node.sugarConcentration - 10000)])
            IN Upd(a1, id, [stressLevel |-> Min(SCALE, node.stressLevel + stressIncrease)])

RECURSIVE respirationLoop(_, _, _, _)
respirationLoop(acc, ids, lo, hi) ==
    IF lo > hi THEN acc
    ELSE IF lo = hi THEN respirationStep(acc, ids[lo])
    ELSE Then(respirationLoop(acc, ids, lo, (lo + hi) \div 2),
              LAMBDA next : respirationLoop(next, ids, (lo + hi) \div 2 + 1, hi))

processRespiration(st) ==
    Then(nodeOrder(st.nodes), LAMBDA ids : respirationLoop(Acc(st), ids, 1, Len(ids)))

\* a faulty death branch that leaves the structural health of the dead segment as it was
stressAndHealthUpdatesKeepsHealth(node) ==
    LET dehydration == IF node.waterPressure < 80000
                       THEN MulU(DEHYDRATION_STRESS_RATE, 80000 - node.waterPressure)
                       ELSE 0
        recovery == IF node.waterPressure > 150000 /\ node.sugarStore > 20000
                    THEN HEALTH_RECOVERY_RATE
                    ELSE IF node.waterPressure > 100000
                    THEN Frac(HEALTH_RECOVERY_RATE, 1, 2)
                    ELSE 0
        stressDelta == dehydration - recovery
        newStress == Max(0, Min(SCALE, node.stressLevel + stressDelta))
        targetHealth == SCALE - Frac(newStress, 8, 10)
        newHealth == IF targetHealth >= node.structuralHealth
                     THEN node.structuralHealth + Frac(targetHealth - node.structuralHealth, 1, 10)
                     ELSE node.structuralHealth - Frac(node.structuralHealth - targetHealth, 1, 10)
    IN IF newStress >= STRESS_DEATH_THRESHOLD
       THEN [stressLevel |-> SCALE, isActive |-> FALSE]
       ELSE [stressLevel |-> newStress, structuralHealth |-> Max(0, Min(SCALE, newHealth))]

\* the updates processStressAndHealth writes to one active node
stressAndHealthUpdates(node) ==
    LET dehydration == IF node.waterPressure < 80000
                       THEN MulU(DEHYDRATION_STRESS_RATE, 80000 - node.waterPressure)
                       ELSE 0
        recovery == IF node.waterPressure > 150000 /\ node.sugarStore > 20000
                    THEN HEALTH_RECOVERY_RATE
                    ELSE IF node.waterPressure > 100000
                    THEN Frac(HEALTH_RECOVERY_RATE, 1, 2)
                    ELSE 0
        stressDelta == dehydration - recovery
        newStress == Max(0, Min(SCALE, node.stressLevel + stressDelta))
        targetHealth == SCALE - Frac(newStress, 8, 10)
        newHealth == IF targetHealth >= node.structuralHealth
                     THEN node.structuralHealth + Frac(targetHealth - node.structuralHealth, 1, 10)
                     ELSE node.structuralHealth - Frac(node.structuralHealth - targetHealth, 1, 10)
    IN IF newStress >= STRESS_DEATH_THRESHOLD
       THEN [stressLevel |-> SCALE, structuralHealth |-> 0, isActive |-> FALSE]
       ELSE [stressLevel |-> newStress, structuralHealth |-> Max(0, Min(SCALE, newHealth))]

\* one iteration of processStressAndHealth's loop
stressAndHealthStep(acc, id) ==
    IF ~acc.state.nodes[id].isActive THEN acc
    ELSE Upd(acc, id, stressAndHealthUpdates(acc.state.nodes[id]))

RECURSIVE stressAndHealthLoop(_, _, _, _)
stressAndHealthLoop(acc, ids, lo, hi) ==
    IF lo > hi THEN acc
    ELSE IF lo = hi THEN stressAndHealthStep(acc, ids[lo])
    ELSE Then(stressAndHealthLoop(acc, ids, lo, (lo + hi) \div 2),
              LAMBDA next : stressAndHealthLoop(next, ids, (lo + hi) \div 2 + 1, hi))

processStressAndHealth(st) ==
    Then(nodeOrder(st.nodes), LAMBDA ids : stressAndHealthLoop(Acc(st), ids, 1, Len(ids)))

(***************************************************************************)
(* systems/autogrow.ts                                                     *)
(***************************************************************************)
BASE_GROWTH_INTERVAL == 15

SeqToSet(q) == {q[i] : i \in DOMAIN q}

\* growthInterval without its floor of 5 ticks
growthIntervalUnfloored(st) ==
    LET sugarExcess == Max(0, st.resources.sugar - 50 * SCALE)
        speedBonus == Min(800000, sugarExcess \div 500)
    IN BASE_GROWTH_INTERVAL * (SCALE - speedBonus)

\* growthInterval of updateAutoGrow, in millionths of a tick
growthInterval(st) ==
    LET sugarExcess == Max(0, st.resources.sugar - 50 * SCALE)
        speedBonus == Min(800000, sugarExcess \div 500)
    IN Max(5 * SCALE, BASE_GROWTH_INTERVAL * (SCALE - speedBonus))

\* analyzePlant(state): counts over the active nodes and the candidate lists
activeIds(st) == {id \in DOMAIN st.nodes : st.nodes[id].isActive}

countType(st, type) == Cardinality({id \in activeIds(st) : st.nodes[id].type = type})

\* weakestNode: the first node in table order with the strictly highest stress above 0
weakestNode(st) ==
    LET A == {id \in activeIds(st) : st.nodes[id].stressLevel > 0}
    IN IF A = {} THEN NULL
       ELSE CHOOSE id \in A :
              \A other \in A :
                 \/ st.nodes[other].stressLevel < st.nodes[id].stressLevel
                 \/ (st.nodes[other].stressLevel = st.nodes[id].stressLevel /\ other >= id)

growthTips(st) ==
    {id \in activeIds(st) : Len(getChildren(st, id)) < MAX_CHILDREN_PER_NODE}

extendableTrunks(st) ==
    {id \in activeIds(st) : Len(st.nodes[id].childrenIds) > 0
                            /\ st.nodes[id].type \in {"TRUNK", "BRANCH"}}

\* balanceRatio > 3
canopyOutweighsRoots(st) ==
    LET canopySize == countType(st, "LEAF") + countType(st, "TRUNK") + countType(st, "BRANCH")
        rootCount == countType(st, "ROOT")
    IN IF rootCount > 0 THEN canopySize > 3 * rootCount ELSE canopySize > 3

GrowAction(type, targetNode, growType, direction) ==
    [type |-> type, targetNode |-> targetNode, growType |-> growType, direction |-> direction]

NoAction == GrowAction("NONE", NULL, "", <<0, 0>>)

\* getRandomRootDirection(): the directions it may return
RootDirections == {<<0, 1>>, <<-1, 1>>, <<1, 1>>}

\* decideAction(analysis, state): every action its Math.random() draws can select
decidePriority6(st) ==
    LET candidates == {id \in growthTips(st) : st.nodes[id].type = "TRUNK"}
    IN {NoAction} \cup
       (IF st.resources.sugar >= COST_BRANCH * SCALE
        THEN {GrowAction("GROW", t, "BRANCH", d) : t \in candidates, d \in {<<-1, -1>>, <<1, -1>>}}
        ELSE {})

decidePriority5(st) ==
    LET trunks == {id \in growthTips(st) : st.nodes[id].type \in {"TRUNK", "SEED"}}
    IN IF st.resources.sugar >= COST_TRUNK * SCALE /\ trunks # {}
       THEN {GrowAction("GROW", t, "TRUNK", <<0, -1>>) : t \in trunks}
       ELSE decidePriority6(st)

decidePriority4(st) ==
    (IF st.resources.sugar >= COST_TRUNK * SCALE
     THEN {GrowAction("EXTEND", t, "", <<0, -1>>) : t \in extendableTrunks(st)}
     ELSE {})
    \cup decidePriority5(st)

decidePriority3(st) ==
    LET candidates == {id \in growthTips(st) : st.nodes[id].type \in {"TRUNK", "BRANCH"}}
    IN IF countType(st, "LEAF") < countType(st, "ROOT") * 2
          /\ st.resources.sugar >= COST_LEAF * SCALE
          /\ candidates # {}
       THEN {GrowAction("GROW", t, "LEAF", <<0, -1>>) : t \in candidates}
       ELSE decidePriority4(st)

decidePriority2(st) ==
    LET roots == SeqToSet(getNodesByType(st, "ROOT"))
        open(id) == Len(getChildren(st, id)) < MAX_CHILDREN_PER_NODE
    IN IF canopyOutweighsRoots(st) /\ st.resources.sugar >= COST_ROOT * SCALE
       THEN IF roots # {}
            THEN {GrowAction("GROW", r, "ROOT", d) : r \in {x \in roots : open(x)}, d \in RootDirections}
                 \cup (IF \E r \in roots : ~open(r) THEN decidePriority3(st) ELSE {})
            ELSE IF st.seedId \in DOMAIN st.nodes /\ open(st.seedId)
            THEN {GrowAction("GROW", st.seedId, "ROOT", <<0, 1>>)}
            ELSE decidePriority3(st)
       ELSE decidePriority3(st)

decideAction(st) ==
    LET weakest == weakestNode(st)
    IN IF /\ weakest # NULL
          /\ st.nodes[weakest].stressLevel > 300000
          /\ st.resources.sugar >= COST_HARDEN * SCALE
          /\ st.nodes[weakest].type \in {"TRUNK", "BRANCH", "ROOT"}
       THEN {GrowAction("THICKEN", weakest, "", <<0, 0>>)}
       ELSE decidePriority2(st)

\* the THICKEN case of executeAction, also app.ts executeGrowth: the radius
\* grows by a fifth and the cost is taken from state.resources.sugar directly
thicken(st, nodeId) ==
    LET r == updateNode(st, nodeId, [radius |-> Frac(st.nodes[nodeId].radius, 12, 10)])
    IN [state |-> [r.state EXCEPT !.resources.sugar = @ - COST_HARDEN * SCALE],
        events |-> r.events]

\* executeAction(action, state)
executeAction(st, nid, action) ==
    CASE action.type = "THICKEN" ->
           LET r == thicken(st, action.targetNode)
           IN Result(r.state, nid, r.events, NULL)
      [] action.type = "EXTEND" ->
           extendNode(st, nid, action.targetNode, action.direction)
      [] action.type = "GROW" ->
           LET target == st.nodes[action.targetNode]
               newPos == <<target.position[1] + action.direction[1],
                           target.position[2] + action.direction[2]>>
               occupied == \E id \in DOMAIN st.nodes : st.nodes[id].position = newPos
           IN IF occupied
              THEN Result(st, nid, <<>>, NULL)
              ELSE addNode(st, nid, action.targetNode, action.growType, newPos, NULL)
      [] OTHER -> Result(st, nid, <<>>, NULL)

\* updateAutoGrow(): the results it can have, each with the new ticksSinceLastGrowth
updateAutoGrow(st, nid, enabled, ticks) ==
    IF ~enabled
    THEN {[result |-> Result(st, nid, <<>>, NULL), ticks |-> ticks, action |-> NoAction]}
    ELSE IF (ticks + 1) * SCALE < growthInterval(st)
    THEN {[result |-> Result(st, nid, <<>>, NULL), ticks |-> ticks + 1, action |-> NoAction]}
    ELSE IF st.resources.sugar < 20 * SCALE
    THEN {[result |-> Result(st, nid, <<>>, NULL), ticks |-> 0, action |-> NoAction]}
    ELSE {[result |-> executeAction(st, nid, a), ticks |-> 0, action |-> a] : a \in decideAction(st)}

(***************************************************************************)
(* Callers of the store: the player's actions of the UI collaborators and  *)
(* direct calls of the store's entry points.                               *)
(***************************************************************************)
\* ids a caller may name: every id the store has handed out or may hand out
\* (an id not in the table is a missing segment)
CallIds == 1..MaxId

\* app.ts calculateGrowthOptions: the tile offsets offered for a new segment
GrowDirs(type) ==
    CASE type = "TRUNK" -> {<<0, -1>>}
      [] type = "LEAF" -> {<<0, -1>>}
      [] type = "ROOT" -> {<<0, 1>>}
      [] type = "BRANCH" -> {<<1, 0>>}
      [] OTHER -> {}

\* app.ts calculateGrowthOptions / autogrow decideAction: roots extend down, stems up
ExtendDir(type) == IF type = "ROOT" THEN <<0, 1>> ELSE <<0, -1>>

\* the last call: its name, target, the target's type, its return value and the
\* number of segments in the table when it was made
Op(op, id, type, ret) ==
    [op |-> op, id |-> id, type |-> type, ret |-> ret,
     count |-> Cardinality(DOMAIN state.nodes)]

\* the deltas the callers of modifyResources pass in this model
ResourceDeltas == {[sugar |-> (0 - 85) * SCALE], [sugar |-> 40 * SCALE, water |-> (0 - 35) * SCALE]}

Init ==
    /\ state = createInitialState(1)
    /\ nextId = 2
    /\ particles = <<>>
    /\ connectionParticleCounts = <<>>
    /\ pc = "idle"
    /\ events = <<>>
    /\ lastOp = Op("init", NULL, "", NULL)
    /\ autoGrowEnabled = FALSE
    /\ ticksSinceLastGrowth = 0
    /\ rollsLeft = MaxRolls
    /\ editsLeft = MaxEdits
    /\ tickLimit = MaxTick
    /\ idLimit = MaxId
    /\ accumulator = 0
    /\ isRunning = FALSE
    /\ lastTickAge = 0
    /\ animationFrameId = "null"
    /\ orphanFrames = 0
    /\ frameKind = "none"

storeVars == <<state, nextId>>

limitVars == <<tickLimit, idLimit>>

frameVars == <<lastTickAge, animationFrameId, orphanFrames, frameKind>>

loopVars == <<accumulator, isRunning, frameVars>>

markerVars == <<particles, connectionParticleCounts>>

growVars == <<autoGrowEnabled, ticksSinceLastGrowth>>

\* addNode(parentId, type, parent position + dir)
AddNode(parentId, type, dir) ==
    /\ pc = "idle"
    /\ LET pos == IF parentId \in DOMAIN state.nodes
                  THEN <<state.nodes[parentId].position[1] + dir[1],
                         state.nodes[parentId].position[2] + dir[2]>>
                  ELSE dir
           r == addNode(state, nextId, parentId, type, pos, NULL)
       IN /\ r.ret # NULL => nextId <= idLimit
          /\ state' = r.state
          /\ nextId' = r.nextId
          /\ events' = r.events
          /\ lastOp' = IF parentId \notin DOMAIN state.nodes
                       THEN Op("addNode", NULL, "", NULL)
                       ELSE Op("addNode", parentId, type, r.ret)
    /\ UNCHANGED <<markerVars, growVars, pc, rollsLeft, editsLeft, limitVars, loopVars>>

\* removeNode(nodeId) (contextMenu.ts pruneNode)
RemoveNode(nodeId) ==
    /\ pc = "idle"
    /\ LET r == removeNode(state, nextId, nodeId)
       IN /\ state' = r.state
          /\ nextId' = r.nextId
          /\ events' = r.events
          /\ lastOp' = IF nodeId \notin DOMAIN state.nodes
                       THEN Op("removeNode", NULL, "", FALSE)
                       ELSE Op("removeNode", nodeId, state.nodes[nodeId].type, r.ret)
    /\ UNCHANGED <<markerVars, growVars, pc, rollsLeft, editsLeft, limitVars, loopVars>>

\* extendNode(nodeId, direction)
ExtendNode(nodeId) ==
    /\ pc = "idle"
    /\ LET dir == IF nodeId \in DOMAIN state.nodes
                  THEN ExtendDir(state.nodes[nodeId].type)
                  ELSE <<0, -1>>
           r == extendNode(state, nextId, nodeId, dir)
       IN /\ r.ret # NULL => nextId <= idLimit
          /\ state' = r.state
          /\ nextId' = r.nextId
          /\ events' = r.events
          /\ lastOp' = IF nodeId \notin DOMAIN state.nodes
                       THEN Op("extendNode", NULL, "", NULL)
                       ELSE Op("extendNode", nodeId, state.nodes[nodeId].type, r.ret)
    /\ UNCHANGED <<markerVars, growVars, pc, rollsLeft, editsLeft, limitVars, loopVars>>

\* updateNode(nodeId, updates) on an id that is not in the table
UpdateNode(nodeId) ==
    /\ pc = "idle"
    /\ editsLeft > 0
    /\ nodeId \notin DOMAIN state.nodes
    /\ LET r == updateNode(state, nodeId, [radius |-> TRUNK_RADIUS, isActive |-> FALSE])
       IN /\ state' = r.state
          /\ events' = r.events
          /\ lastOp' = Op("updateNode", NULL, "", r.ret)
    /\ editsLeft' = editsLeft - 1
    /\ UNCHANGED <<nextId, markerVars, growVars, pc, rollsLeft, limitVars, loopVars>>

\* app.ts executeGrowth, option THICKEN: offered for trunk, branch and root
\* segments while sugar covers COST_HARDEN
ThickenNode(nodeId) ==
    /\ pc = "idle"
    /\ editsLeft > 0
    /\ nodeId \in DOMAIN state.nodes
    /\ state.nodes[nodeId].type \in {"TRUNK", "BRANCH", "ROOT"}
    /\ state.resources.sugar >= COST_HARDEN * SCALE
    /\ LET r == thicken(state, nodeId)
       IN /\ state' = r.state
          /\ events' = r.events
          /\ lastOp' = Op("thicken", nodeId, "", NULL)
    /\ editsLeft' = editsLeft - 1
    /\ UNCHANGED <<nextId, markerVars, growVars, pc, rollsLeft, limitVars, loopVars>>

\* modifyResources(delta)
ModifyResources(delta) ==
    /\ pc = "idle"
    /\ editsLeft > 0
    /\ LET r == modifyResources(state, delta)
       IN /\ state' = r.state
          /\ events' = r.events
          /\ lastOp' = Op("modifyResources", NULL, "", NULL)
    /\ editsLeft' = editsLeft - 1
    /\ UNCHANGED <<nextId, markerVars, growVars, pc, rollsLeft, limitVars, loopVars>>

\* selectNode(nodeId | null)
SelectNode(nodeId) ==
    /\ pc = "idle"
    /\ editsLeft > 0
    /\ state.selectedNodeId # nodeId
    /\ LET r == selectNode(state, nodeId)
       IN /\ state' = r.state
          /\ events' = r.events
          /\ lastOp' = Op("selectNode", NULL, "", NULL)
    /\ editsLeft' = editsLeft - 1
    /\ UNCHANGED <<nextId, markerVars, growVars, pc, rollsLeft, limitVars, loopVars>>

\* setAutoGrow(enabled)
SetAutoGrow(enabled) ==
    /\ pc = "idle"
    /\ editsLeft > 0
    /\ enabled # autoGrowEnabled
    /\ autoGrowEnabled' = enabled
    /\ ticksSinceLastGrowth' = 0
    /\ events' = <<>>
    /\ lastOp' = Op("setAutoGrow", NULL, "", enabled)
    /\ editsLeft' = editsLeft - 1
    /\ UNCHANGED <<storeVars, markerVars, pc, rollsLeft, limitVars, loopVars>>

\* clearParticles()
ClearParticles ==
    /\ pc = "idle"
    /\ editsLeft > 0
    /\ particles # <<>>
    /\ particles' = clearParticles.particles
    /\ connectionParticleCounts' = clearParticles.counts
    /\ events' = <<>>
    /\ lastOp' = Op("clearParticles", NULL, "", NULL)
    /\ editsLeft' = editsLeft - 1
    /\ UNCHANGED <<storeVars, growVars, pc, rollsLeft, limitVars, loopVars>>

(***************************************************************************)
(* loop.ts tick(): the systems in call order, one action per system.  No   *)
(* caller of the store runs between two systems of a tick.                 *)
(***************************************************************************)
\* the outcomes of n Math.random() rolls of one system: the rolls that came out true
RollOutcomes(n) == IF n <= MaxRollSites THEN SUBSET (1..n) ELSE {{}, 1..n}

\* a system that ran from position `here`: its store writes, then the marker
\* spawns whose rolls came out true
SystemStep(here, there, acc) ==
    /\ pc = here
    /\ \E ran \in {acc} :
         /\ \E chosen \in RollOutcomes(Len(ran.requests)) :
              /\ Cardinality(chosen) <= rollsLeft
              /\ rollsLeft' = rollsLeft - Cardinality(chosen)
              /\ \E pool \in {spawnChosen(Pool(particles, connectionParticleCounts),
                                          ran.requests, chosen, 1, Len(ran.requests))} :
                   /\ particles' = pool.particles
                   /\ connectionParticleCounts' = pool.counts
         /\ state' = ran.state
         /\ events' = ran.events
    /\ pc' = there
    /\ lastOp' = Op(here, NULL, "", NULL)
    /\ UNCHANGED <<nextId, growVars, editsLeft, limitVars, loopVars>>

\* updateClimateSystem(), the first call of tick()
UpdateClimateSystem ==
    /\ pc = "idle"
    /\ state.climate.tick < tickLimit
    /\ autoGrowEnabled => nextId <= idLimit
    /\ \E rainRoll \in BOOLEAN :
         /\ rainRoll => rollsLeft > 0
         /\ rollsLeft' = IF rainRoll THEN rollsLeft - 1 ELSE rollsLeft
         /\ LET r == updateClimateSystem(state, rainRoll)
            IN /\ state' = r.state
               /\ events' = r.events
    /\ pc' = "transpiration"
    /\ lastOp' = Op("climate", NULL, "", NULL)
    /\ UNCHANGED <<nextId, markerVars, growVars, editsLeft, limitVars, loopVars>>

ProcessTranspiration == SystemStep("transpiration", "rootUptake", processTranspiration(state))

ProcessRootUptake == SystemStep("rootUptake", "xylem", processRootUptake(state))

ProcessXylemFlow == SystemStep("xylem", "phloem", processXylemFlow(state))

ProcessPhloemFlow == SystemStep("phloem", "particles", processPhloemFlow(state))

UpdateParticles ==
    /\ pc = "particles"
    /\ \E pool \in {updateParticles(state, Pool(particles, connectionParticleCounts))} :
          /\ particles' = pool.particles
          /\ connectionParticleCounts' = pool.counts
    /\ events' = <<>>
    /\ pc' = "photosynthesis"
    /\ lastOp' = Op("particles", NULL, "", NULL)
    /\ UNCHANGED <<storeVars, growVars, rollsLeft, editsLeft, limitVars, loopVars>>

\* a faulty step that goes on with the stress step, leaving respiration out
ProcessPhotosynthesisSkips == SystemStep("photosynthesis", "stress", processPhotosynthesis(state))

ProcessPhotosynthesis == SystemStep("photosynthesis", "respiration", processPhotosynthesis(state))

ProcessRespiration == SystemStep("respiration", "stress", processRespiration(state))

ProcessStressAndHealth == SystemStep("stress", "autogrow", processStressAndHealth(state))

UpdateAutoGrow ==
    /\ pc = "autogrow"
    /\ \E g \in updateAutoGrow(state, nextId, autoGrowEnabled, ticksSinceLastGrowth) :
         /\ state' = g.result.state
         /\ nextId' = g.result.nextId
         /\ events' = g.result.events
         /\ ticksSinceLastGrowth' = g.ticks
         /\ lastOp' = Op("autogrow", g.action.targetNode, g.action.type, g.result.ret)
    /\ pc' = "increment"
    /\ UNCHANGED <<markerVars, autoGrowEnabled, rollsLeft, editsLeft, limitVars, loopVars>>

\* incrementTick(), the last call of tick()
IncrementTick ==
    /\ pc = "increment"
    /\ state' = [state EXCEPT !.climate.tick = @ + 1]
    /\ events' = <<"tick">>
    /\ pc' = "idle"
    /\ lastOp' = Op("tick", NULL, "", state.climate.tick + 1)
    /\ UNCHANGED <<nextId, markerVars, growVars, rollsLeft, editsLeft, limitVars, loopVars>>

Tick ==
    \/ UpdateClimateSystem
    \/ ProcessTranspiration
    \/ ProcessRootUptake
    \/ ProcessXylemFlow
    \/ ProcessPhloemFlow
    \/ UpdateParticles
    \/ ProcessPhotosynthesis
    \/ ProcessRespiration
    \/ ProcessStressAndHealth
    \/ UpdateAutoGrow
    \/ IncrementTick

\* loop.ts tick(), the systems in call order: the store after the last system,
\* the store updateParticles reads, and the marker spawns asked for before
\* (hydraulics) and after (metabolism) updateParticles
tickSystems(st, rainRoll) ==
    Then(updateClimateSystem(st, rainRoll), LAMBDA c :
    Then(processTranspiration(c.state), LAMBDA h1 :
    Then(processRootUptake(h1.state), LAMBDA h2 :
    Then(processXylemFlow(h2.state), LAMBDA h3 :
    Then(processPhloemFlow(h3.state), LAMBDA h4 :
    Then(processPhotosynthesis(h4.state), LAMBDA m1 :
    Then(processRespiration(m1.state), LAMBDA m2 :
    Then(processStressAndHealth(m2.state), LAMBDA m3 :
        [state |-> m3.state,
         flowState |-> h4.state,
         hreq |-> h1.requests \o h2.requests \o h3.requests \o h4.requests,
         mreq |-> m1.requests \o m2.requests \o m3.requests]))))))))

\* the marker pool after one tick() in which the rolls hs of hydraulics and ms
\* of metabolism came out true
tickParticles(sys, pool, hs, ms) ==
    Then(spawnChosen(pool, sys.hreq, hs, 1, Len(sys.hreq)), LAMBDA pool1 :
    Then(updateParticles(sys.flowState, pool1), LAMBDA pool2 :
         spawnChosen(pool2, sys.mreq, ms, 1, Len(sys.mreq))))

\* loop.ts stepSimulation(): one whole tick() as a single step
StepSimulation ==
    /\ pc = "idle"
    /\ state.climate.tick < tickLimit
    /\ autoGrowEnabled => nextId <= idLimit
    /\ \E rainRoll \in BOOLEAN :
         /\ rainRoll => rollsLeft > 0
         /\ \E sys \in {tickSystems(state, rainRoll)}, rain \in {IF rainRoll THEN 1 ELSE 0} :
               \E hs \in RollOutcomes(Len(sys.hreq)), ms \in RollOutcomes(Len(sys.mreq)) :
                 /\ rain + Cardinality(hs) + Cardinality(ms) <= rollsLeft
                 /\ rollsLeft' = rollsLeft - (rain + Cardinality(hs) + Cardinality(ms))
                 /\ \E pool \in {tickParticles(sys, Pool(particles, connectionParticleCounts), hs, ms)} :
                       /\ particles' = pool.particles
                       /\ connectionParticleCounts' = pool.counts
                 /\ \E g \in updateAutoGrow(sys.state, nextId, autoGrowEnabled, ticksSinceLastGrowth) :
                      /\ state' = [g.result.state EXCEPT !.climate.tick = @ + 1]
                      /\ nextId' = g.result.nextId
                      /\ ticksSinceLastGrowth' = g.ticks
    /\ events' = <<"tick">>
    /\ lastOp' = Op("stepSimulation", NULL, "", state.climate.tick + 1)
    /\ UNCHANGED <<autoGrowEnabled, pc, editsLeft, limitVars, loopVars>>

\* state.ts resetState: the id counter restarts, createInitialState takes id 1
ResetState ==
    /\ pc = "idle"
    /\ state' = createInitialState(1)
    /\ nextId' = 2
    /\ events' = <<"tick">>
    /\ lastOp' = [op |-> "resetState", id |-> NULL, type |-> "", ret |-> NULL, count |-> 1]
    /\ UNCHANGED <<markerVars, growVars, pc, rollsLeft, editsLeft, limitVars, loopVars>>

(***************************************************************************)
(* loop.ts: the scheduler.  Times are in thousandths of a millisecond.     *)
(***************************************************************************)
MS == 1000

TICK_INTERVAL == (1000 * MS) \div TICKS_PER_SECOND

\* state.ts setPaused
SetPaused(paused) ==
    /\ pc = "idle"
    /\ state' = [state EXCEPT !.isPaused = paused]
    /\ events' = <<>>
    /\ lastOp' = Op("setPaused", NULL, "", NULL)
    /\ UNCHANGED <<nextId, markerVars, growVars, pc, rollsLeft, editsLeft, limitVars, loopVars>>

\* state.ts setSpeedMultiplier
SetSpeedMultiplier(multiplier) ==
    /\ pc = "idle"
    /\ state' = [state EXCEPT !.speedMultiplier = Max(SCALE \div 10, Min(10 * SCALE, multiplier))]
    /\ events' = <<>>
    /\ lastOp' = Op("setSpeedMultiplier", NULL, "", NULL)
    /\ UNCHANGED <<nextId, markerVars, growVars, pc, rollsLeft, editsLeft, limitVars, loopVars>>

\* the module variables of loop.ts and the browser's pending callbacks
Scheduler == [isRunning |-> isRunning,
              accumulator |-> accumulator,
              lastTickAge |-> lastTickAge,
              animationFrameId |-> animationFrameId,
              orphanFrames |-> orphanFrames]

\* animationFrameId = requestAnimationFrame(loop): the callback whose handle
\* is overwritten stays pending
requestFrame(sch) ==
    [sch EXCEPT !.animationFrameId = "pending",
                !.orphanFrames = IF sch.animationFrameId = "pending" THEN @ + 1 ELSE @]

\* stopSimulation(): cancelAnimationFrame takes the callback of the handle,
\* if it is still pending, out of the browser's queue
stopSimulation(sch) == [sch EXCEPT !.isRunning = FALSE, !.animationFrameId = "null"]

\* startSimulation(): its call of loop() finds no time elapsed, runs no
\* tick and requests the first callback
startSimulation(sch) ==
    IF sch.isRunning THEN sch
    ELSE requestFrame([sch EXCEPT !.isRunning = TRUE, !.lastTickAge = 0, !.accumulator = 0])

\* a faulty loop() that stamps the time only when the store is not paused
stampTimeUnlessPaused(sch) == IF state.isPaused THEN sch ELSE [sch EXCEPT !.lastTickAge = 0]

\* lastTickTime = currentTime, in every callback that finds the loop running
stampTime(sch) == [sch EXCEPT !.lastTickAge = 0]

\* the calls a listener makes while a tick of loop() is running, in order
RECURSIVE observerCalls(_, _, _)
observerCalls(sch, calls, i) ==
    IF i > Len(calls) THEN sch
    ELSE observerCalls(IF calls[i] = "stop" THEN stopSimulation(sch) ELSE startSimulation(sch),
                       calls, i + 1)

SetScheduler(sch) ==
    /\ isRunning' = sch.isRunning
    /\ accumulator' = sch.accumulator
    /\ lastTickAge' = sch.lastTickAge
    /\ animationFrameId' = sch.animationFrameId
    /\ orphanFrames' = sch.orphanFrames

\* startSimulation
StartSimulation ==
    /\ pc = "idle"
    /\ ~isRunning
    /\ SetScheduler(startSimulation(Scheduler))
    /\ events' = <<>>
    /\ lastOp' = Op("startSimulation", NULL, "", NULL)
    /\ UNCHANGED <<storeVars, markerVars, growVars, pc, rollsLeft, editsLeft, limitVars, frameKind>>

\* stopSimulation
StopSimulation ==
    /\ pc = "idle"
    /\ SetScheduler(stopSimulation(Scheduler))
    /\ events' = <<>>
    /\ lastOp' = Op("stopSimulation", NULL, "", NULL)
    /\ UNCHANGED <<storeVars, markerVars, growVars, pc, rollsLeft, editsLeft, limitVars, frameKind>>

\* a faulty loop() that leaves the speed multiplier out
accumulateUnscaled(acc, deltaTime, st) == acc + deltaTime

\* loop(): accumulator += deltaTime * state.speedMultiplier
accumulate(acc, deltaTime, st) == acc + MulU(deltaTime, st.speedMultiplier)

\* tick() as loop() calls it, on the configuration c of the store, the id
\* counter, the marker pool, the heuristic's counter and the accumulator: the
\* configurations it may leave, one for each way the rolls can come out
tick(c, enabled) ==
    UNION {UNION {UNION {UNION {
        {[state |-> [g.result.state EXCEPT !.climate.tick = @ + 1],
          nextId |-> g.result.nextId,
          pool |-> pool,
          ticks |-> g.ticks,
          rollsLeft |-> c.rollsLeft - (rain + Cardinality(rolls[1]) + Cardinality(rolls[2])),
          accumulator |-> c.accumulator] :
            g \in updateAutoGrow(sys.state, c.nextId, enabled, c.ticks)} :
        pool \in {tickParticles(sys, c.pool, rolls[1], rolls[2])}} :
        rolls \in {r \in RollOutcomes(Len(sys.hreq)) \X RollOutcomes(Len(sys.mreq)) :
                     rain + Cardinality(r[1]) + Cardinality(r[2]) <= c.rollsLeft}} :
        sys \in {tickSystems(c.state, rain = 1)}} :
        rain \in {r \in {0, 1} : r <= c.rollsLeft}}

\* loop(): while (accumulator >= TICK_INTERVAL) { tick(); accumulator -= TICK_INTERVAL; }
RECURSIVE loopWhile(_, _)
loopWhile(c, enabled) ==
    IF c.accumulator >= TICK_INTERVAL
    THEN UNION {loopWhile([o EXCEPT !.accumulator = @ - TICK_INTERVAL], enabled) :
                  o \in tick(c, enabled)}
    ELSE {c}

\* one callback of loop(), fired deltaTime after the latest callback or
\* start: own tells whether it is the callback of the handle loop.ts holds,
\* calls are the calls a listener of its last tick makes while that tick runs
Frame(deltaTime, own, calls) ==
    /\ pc = "idle"
    /\ IF own THEN animationFrameId = "pending" ELSE orphanFrames > 0
    /\ LET fired == [Scheduler EXCEPT !.animationFrameId = IF own THEN "fired" ELSE @,
                                      !.orphanFrames = IF own THEN @ ELSE @ - 1,
                                      !.lastTickAge = @ + deltaTime]
       IN IF ~isRunning
          THEN /\ calls = <<>>
               /\ SetScheduler(fired)
               /\ events' = <<>>
               /\ lastOp' = Op("loop", deltaTime, "", NULL)
               /\ UNCHANGED <<storeVars, markerVars, ticksSinceLastGrowth, rollsLeft, editsLeft,
                              frameKind>>
          ELSE IF state.isPaused
          THEN /\ calls = <<>>
               /\ SetScheduler(requestFrame(stampTime(fired)))
               /\ events' = <<>>
               /\ frameKind' = (IF fired.lastTickAge > 0 \/ frameKind = "paused" THEN "paused" ELSE "ran")
               /\ lastOp' = Op("loop", deltaTime, "", NULL)
               /\ UNCHANGED <<storeVars, markerVars, ticksSinceLastGrowth, rollsLeft, editsLeft>>
          ELSE \E grown \in {accumulate(accumulator, fired.lastTickAge, state)} :
                 /\ state.climate.tick + grown \div TICK_INTERVAL <= tickLimit
                 /\ \E o \in loopWhile([state |-> state,
                                         nextId |-> nextId,
                                         pool |-> Pool(particles, connectionParticleCounts),
                                         ticks |-> ticksSinceLastGrowth,
                                         rollsLeft |-> rollsLeft,
                                         accumulator |-> grown], autoGrowEnabled) :
                       /\ o.nextId <= idLimit + 1
                       /\ state' = o.state
                       /\ nextId' = o.nextId
                       /\ particles' = o.pool.particles
                       /\ connectionParticleCounts' = o.pool.counts
                       /\ ticksSinceLastGrowth' = o.ticks
                       /\ rollsLeft' = o.rollsLeft
                       /\ events' = [i \in 1..(o.state.climate.tick - state.climate.tick) |-> "tick"]
                       /\ IF calls = <<>>
                          THEN /\ SetScheduler(requestFrame([stampTime(fired) EXCEPT
                                                                  !.accumulator = o.accumulator]))
                               /\ UNCHANGED editsLeft
                          ELSE /\ o.state.climate.tick > state.climate.tick
                               /\ editsLeft > 0
                               /\ editsLeft' = editsLeft - 1
                               /\ \E sch \in {observerCalls([stampTime(fired) EXCEPT
                                                                !.accumulator = o.accumulator + TICK_INTERVAL],
                                                            calls, 1)} :
                                     SetScheduler(requestFrame([sch EXCEPT
                                                                  !.accumulator = @ - TICK_INTERVAL]))
                 /\ frameKind' = (IF frameKind = "paused" THEN "resumed" ELSE "ran")
                 /\ lastOp' = Op("loop", deltaTime, "", NULL)
    /\ UNCHANGED <<autoGrowEnabled, pc, limitVars>>

\* a callback of loop() during which no listener calls the scheduler
Loop(deltaTime) == \E own \in BOOLEAN : Frame(deltaTime, own, <<>>)

\* a callback of loop() whose last tick has a listener that calls the scheduler
ObservedLoop(deltaTime, calls) == calls # <<>> /\ \E own \in BOOLEAN : Frame(deltaTime, own, calls)

Next ==
    \/ \E parentId \in CallIds, type \in {"ROOT", "TRUNK", "BRANCH", "LEAF"} :
          \E dir \in GrowDirs(type) : AddNode(parentId, type, dir)
    \/ \E nodeId \in CallIds : RemoveNode(nodeId)
    \/ \E nodeId \in CallIds : ExtendNode(nodeId)
    \/ \E nodeId \in CallIds : UpdateNode(nodeId)
    \/ \E nodeId \in CallIds : ThickenNode(nodeId)
    \/ \E delta \in ResourceDeltas : ModifyResources(delta)
    \/ \E nodeId \in CallIds \cup {NULL} : SelectNode(nodeId)
    \/ \E enabled \in BOOLEAN : SetAutoGrow(enabled)
    \/ ClearParticles
    \/ Tick

Spec == Init /\ [][Next]_vars

(***************************************************************************)
(* The store alone: the calls of the player and of the store's API under a *)
(* stopped clock, on trees of up to MaxStoreId - 1 segments.               *)
(***************************************************************************)
InitStore ==
    /\ state = createInitialState(1)
    /\ nextId = 2
    /\ particles = <<>>
    /\ connectionParticleCounts = <<>>
    /\ pc = "idle"
    /\ events = <<>>
    /\ lastOp = Op("init", NULL, "", NULL)
    /\ autoGrowEnabled = FALSE
    /\ ticksSinceLastGrowth = 0
    /\ rollsLeft = 0
    /\ editsLeft = MaxStoreEdits
    /\ tickLimit = 0
    /\ idLimit = MaxStoreId
    /\ accumulator = 0
    /\ isRunning = FALSE
    /\ lastTickAge = 0
    /\ animationFrameId = "null"
    /\ orphanFrames = 0
    /\ frameKind = "none"

NextStore ==
    \/ \E parentId \in 1..MaxStoreId, type \in {"ROOT", "TRUNK", "BRANCH", "LEAF"} :
          \E dir \in GrowDirs(type) : AddNode(parentId, type, dir)
    \/ \E nodeId \in 1..MaxStoreId : RemoveNode(nodeId)
    \/ \E nodeId \in 1..MaxStoreId : ExtendNode(nodeId)
    \/ \E nodeId \in 1..MaxStoreId : UpdateNode(nodeId)
    \/ \E nodeId \in 1..MaxStoreId : ThickenNode(nodeId)
    \/ \E delta \in ResourceDeltas : ModifyResources(delta)
    \/ \E nodeId \in (1..MaxStoreId) \cup {NULL} : SelectNode(nodeId)

SpecStore == InitStore /\ [][NextStore]_vars

(***************************************************************************)
(* Reinforced plants: stores built from the initial store by the store's   *)
(* own entry points (modifyResources, addNode and the THICKEN edit of      *)
(* executeGrowth / executeAction), then left to the clock.                 *)
(***************************************************************************)
\* the THICKEN edit repeated k times on nodeId, while sugar covers its cost
RECURSIVE reinforce(_, _, _)
reinforce(st, nodeId, k) ==
    IF k = 0 \/ st.resources.sugar < COST_HARDEN * SCALE THEN st
    ELSE IF k = 1 THEN thicken(st, nodeId).state
    ELSE Then(reinforce(st, nodeId, k \div 2), LAMBDA next : reinforce(next, nodeId, k - k \div 2))

\* the sugar that pays for two segments reinforced k times each
sugarFor(k) == [sugar |-> 2 * k * COST_HARDEN * SCALE]

\* seed -> trunk 2 -> trunk 3, both trunks reinforced k times
reinforcedStem(k) ==
    LET s0 == modifyResources(createInitialState(1), sugarFor(k)).state
        r1 == addNode(s0, 2, 1, "TRUNK", <<0, -1>>, NULL)
        r2 == addNode(r1.state, r1.nextId, 2, "TRUNK", <<0, -2>>, NULL)
    IN reinforce(reinforce(r2.state, 2, k), 3, k)

\* seed with the two children trunk 2 and trunk 3, both reinforced k times
reinforcedFork(k) ==
    LET s0 == modifyResources(createInitialState(1), sugarFor(k)).state
        r1 == addNode(s0, 2, 1, "TRUNK", <<0, -1>>, NULL)
        r2 == addNode(r1.state, r1.nextId, 1, "TRUNK", <<1, -1>>, NULL)
    IN reinforce(reinforce(r2.state, 2, k), 3, k)

InitFrom(st, ticks, rolls) ==
    /\ state = st
    /\ nextId = 4
    /\ particles = <<>>
    /\ connectionParticleCounts = <<>>
    /\ pc = "idle"
    /\ events = <<>>
    /\ lastOp = Op("init", NULL, "", NULL)
    /\ autoGrowEnabled = FALSE
    /\ ticksSinceLastGrowth = 0
    /\ rollsLeft = rolls
    /\ editsLeft = 0
    /\ tickLimit = ticks
    /\ idLimit = 3
    /\ accumulator = 0
    /\ isRunning = FALSE
    /\ lastTickAge = 0
    /\ animationFrameId = "null"
    /\ orphanFrames = 0
    /\ frameKind = "none"

\* a reinforced stem under the running clock
InitStem == \E k \in 0..MaxThicken : InitFrom(reinforcedStem(k), MaxStemTicks, MaxRolls)

SpecStem == InitStem /\ [][Tick]_vars

\* a reinforced fork stepped through a long drought of marker-free ticks
InitFork == InitFrom(reinforcedFork(MaxThicken), MaxForkTicks, 0)

SpecFork == InitFork /\ [][StepSimulation]_vars

(***************************************************************************)
(* Growing and pruning under the running clock: addNode, removeNode and    *)
(* extendNode calls between the ticks, on trees of up to MaxStoreId - 1    *)
(* segments.                                                               *)
(***************************************************************************)
InitTree ==
    /\ state = createInitialState(1)
    /\ nextId = 2
    /\ particles = <<>>
    /\ connectionParticleCounts = <<>>
    /\ pc = "idle"
    /\ events = <<>>
    /\ lastOp = Op("init", NULL, "", NULL)
    /\ autoGrowEnabled = FALSE
    /\ ticksSinceLastGrowth = 0
    /\ rollsLeft = 0
    /\ editsLeft = 0
    /\ tickLimit = MaxTick
    /\ idLimit = MaxStoreId
    /\ accumulator = 0
    /\ isRunning = FALSE
    /\ lastTickAge = 0
    /\ animationFrameId = "null"
    /\ orphanFrames = 0
    /\ frameKind = "none"

NextTree ==
    \/ \E parentId \in 1..MaxStoreId, type \in {"ROOT", "TRUNK", "BRANCH", "LEAF"} :
          \E dir \in GrowDirs(type) : AddNode(parentId, type, dir)
    \/ \E nodeId \in 1..MaxStoreId : RemoveNode(nodeId)
    \/ \E nodeId \in 1..MaxStoreId : ExtendNode(nodeId)
    \/ Tick

SpecTree == InitTree /\ [][NextTree]_vars

\* the player's structural calls alone, with room for a segment that has two
\* children and is then extended
InitGraft ==
    /\ state = createInitialState(1)
    /\ nextId = 2
    /\ particles = <<>>
    /\ connectionParticleCounts = <<>>
    /\ pc = "idle"
    /\ events = <<>>
    /\ lastOp = Op("init", NULL, "", NULL)
    /\ autoGrowEnabled = FALSE
    /\ ticksSinceLastGrowth = 0
    /\ rollsLeft = 0
    /\ editsLeft = 0
    /\ tickLimit = 0
    /\ idLimit = MaxGraftId
    /\ accumulator = 0
    /\ isRunning = FALSE
    /\ lastTickAge = 0
    /\ animationFrameId = "null"
    /\ orphanFrames = 0
    /\ frameKind = "none"

NextGraft ==
    \/ \E parentId \in 1..MaxGraftId, type \in {"ROOT", "TRUNK", "BRANCH", "LEAF"} :
          \E dir \in GrowDirs(type) : AddNode(parentId, type, dir)
    \/ \E nodeId \in 1..MaxGraftId : RemoveNode(nodeId)
    \/ \E nodeId \in 1..MaxGraftId : ExtendNode(nodeId)

SpecGraft == InitGraft /\ [][NextGraft]_vars

\* k more leaves added under the seed of the store r.state
RECURSIVE sprout(_, _)
sprout(r, k) ==
    IF k = 0 THEN r
    ELSE IF k = 1 THEN addNode(r.state, r.nextId, r.state.seedId, "LEAF", <<0, -1>>, NULL)
    ELSE Then(sprout(r, k \div 2), LAMBDA next : sprout(next, k - k \div 2))

\* the seed with k leaves, paid for with added sugar
bushy(k) ==
    sprout(Result(modifyResources(createInitialState(1), [sugar |-> k * COST_LEAF * SCALE]).state,
                  2, <<>>, NULL), k).state

\* n ticks in which every spawn roll came out true and no rain roll did
RECURSIVE saturated(_, _, _)
saturated(st, pool, n) ==
    IF n = 0 THEN [state |-> st, pool |-> pool]
    ELSE Then(tickSystems(st, FALSE), LAMBDA sys :
         Then(tickParticles(sys, pool, 1..Len(sys.hreq), 1..Len(sys.mreq)), LAMBDA next :
         saturated([sys.state EXCEPT !.climate.tick = @ + 1], next, n - 1)))

\* a bushy plant whose spawn requests alone exceed the global cap, after
\* MaxAged saturated ticks (its first markers are then about to arrive), under
\* the running clock, with clearParticles and pruning
InitMarkers ==
    \E aged \in {saturated(bushy(MaxBranches), clearParticles, MaxAged)} :
       /\ state = aged.state
       /\ nextId = MaxBranches + 2
       /\ particles = aged.pool.particles
       /\ connectionParticleCounts = aged.pool.counts
       /\ pc = "idle"
       /\ events = <<>>
       /\ lastOp = Op("init", NULL, "", NULL)
       /\ autoGrowEnabled = FALSE
       /\ ticksSinceLastGrowth = 0
       /\ rollsLeft = MaxMarkerRolls
       /\ editsLeft = 1
       /\ tickLimit = MaxAged + MaxMarkerTicks
       /\ idLimit = MaxBranches + 1
       /\ accumulator = 0
       /\ isRunning = FALSE
       /\ lastTickAge = 0
       /\ animationFrameId = "null"
       /\ orphanFrames = 0
       /\ frameKind = "none"

\* the segments the player prunes in the run: the seed (refused) and leaf 2
PruneIds == {1, 2}

NextMarkers ==
    \/ Tick
    \/ ClearParticles
    \/ \E nodeId \in PruneIds : RemoveNode(nodeId)

SpecMarkers == InitMarkers /\ [][NextMarkers]_vars

(***************************************************************************)
(* The plant the application starts with (main.ts createInitialPlant),     *)
(* under the running clock: the scheduler keeps calling tick() while the   *)
(* simulation runs, so a tick that can run does run.                       *)
(***************************************************************************)
\* ticks of the run of the starting plant
MaxPlantTicks == 300

\* createInitialPlant(): seed -> trunk -> trunk -> leaf and seed -> root -> root
createInitialPlant(st, nid) ==
    LET trunk1 == addNode(st, nid, st.seedId, "TRUNK", <<0, -1>>, NULL)
        trunk2 == IF trunk1.ret # NULL
                  THEN addNode(trunk1.state, trunk1.nextId, trunk1.ret, "TRUNK", <<0, -2>>, NULL)
                  ELSE trunk1
        leaf == IF trunk1.ret # NULL /\ trunk2.ret # NULL
                THEN addNode(trunk2.state, trunk2.nextId, trunk2.ret, "LEAF", <<0, -3>>, NULL)
                ELSE trunk2
        root1 == addNode(leaf.state, leaf.nextId, st.seedId, "ROOT", <<0, 1>>, NULL)
    IN IF root1.ret # NULL
       THEN addNode(root1.state, root1.nextId, root1.ret, "ROOT", <<0, 2>>, NULL)
       ELSE root1

InitPlant ==
    \E plant \in {createInitialPlant(createInitialState(1), 2)} :
       /\ state = plant.state
       /\ nextId = plant.nextId
       /\ particles = <<>>
       /\ connectionParticleCounts = <<>>
       /\ pc = "idle"
       /\ events = <<>>
       /\ lastOp = Op("init", NULL, "", NULL)
       /\ autoGrowEnabled = FALSE
       /\ ticksSinceLastGrowth = 0
       /\ rollsLeft = 0
       /\ editsLeft = 0
       /\ tickLimit = MaxPlantTicks
       /\ idLimit = plant.nextId - 1
       /\ accumulator = 0
       /\ isRunning = FALSE
       /\ lastTickAge = 0
       /\ animationFrameId = "null"
       /\ orphanFrames = 0
       /\ frameKind = "none"

SpecPlant == InitPlant /\ [][Tick]_vars /\ WF_vars(Tick)

(***************************************************************************)
(* A stem that starves to death: seed -> trunk 2 -> trunk 3, the inner     *)
(* trunk reinforced until its maintenance cost outruns the recovery of the *)
(* stress step, the outer one until it drains the inner trunk's pressure.  *)
(* The run starts shortly before the inner trunk dies and goes on with     *)
(* ticks and the player's structural calls.                                *)
(***************************************************************************)
\* THICKEN edits of the inner trunk, the ticks before the run starts, the
\* ticks of the run and the largest id the store may hand out in it
MaxWiltThicken == 49
MaxWiltAged == 70
MaxWiltTicks == 2
MaxWiltId == 4

\* n ticks in which no Math.random() roll came out true, the growth heuristic off
RECURSIVE drought(_, _)
drought(st, n) ==
    IF n = 0 THEN st
    ELSE IF n = 1
    THEN Then(tickSystems(st, FALSE), LAMBDA sys : [sys.state EXCEPT !.climate.tick = @ + 1])
    ELSE Then(drought(st, n \div 2), LAMBDA next : drought(next, n - n \div 2))

\* seed -> trunk 2 (reinforced k2 times) -> segment 3 of the given type
\* (reinforced k3 times)
reinforcedChain(k2, type3, k3) ==
    LET s0 == modifyResources(createInitialState(1), [sugar |-> (k2 + k3) * COST_HARDEN * SCALE]).state
        r1 == addNode(s0, 2, 1, "TRUNK", <<0, -1>>, NULL)
        r2 == addNode(r1.state, r1.nextId, 2, type3, <<0, -2>>, NULL)
    IN reinforce(reinforce(r2.state, 2, k2), 3, k3)

InitWilt ==
    \E aged \in {drought(reinforcedChain(MaxWiltThicken, "TRUNK", MaxThicken), MaxWiltAged)} :
       /\ state = aged
       /\ nextId = 4
       /\ particles = <<>>
       /\ connectionParticleCounts = <<>>
       /\ pc = "idle"
       /\ events = <<>>
       /\ lastOp = Op("init", NULL, "", NULL)
       /\ autoGrowEnabled = FALSE
       /\ ticksSinceLastGrowth = 0
       /\ rollsLeft = 0
       /\ editsLeft = 0
       /\ tickLimit = MaxWiltAged + MaxWiltTicks
       /\ idLimit = MaxWiltId
       /\ accumulator = 0
       /\ isRunning = FALSE
       /\ lastTickAge = 0
       /\ animationFrameId = "null"
       /\ orphanFrames = 0
       /\ frameKind = "none"

NextWilt ==
    \/ \E parentId \in 1..MaxWiltId, type \in {"ROOT", "TRUNK", "BRANCH", "LEAF"} :
          \E dir \in GrowDirs(type) : AddNode(parentId, type, dir)
    \/ \E nodeId \in 1..MaxWiltId : RemoveNode(nodeId)
    \/ \E nodeId \in 1..MaxWiltId : ExtendNode(nodeId)
    \/ Tick

SpecWilt == InitWilt /\ [][NextWilt]_vars

\* a reinforced inner trunk that keeps its pressure: seed -> trunk 2 -> leaf 3,
\* the trunk starving under a maintenance cost just above the recovery rate
MaxLeanTicks == 200

InitLean == InitFrom(reinforcedChain(MaxWiltThicken, "LEAF", 0), MaxLeanTicks, 0)

SpecLean == InitLean /\ [][Tick]_vars

\* the starting plant stepped by both entry points of the tick: the phases of
\* tick() one by one, and stepSimulation() as one step
MaxStepTicks == 10

InitStep ==
    \E plant \in {createInitialPlant(createInitialState(1), 2)} :
       /\ state = plant.state
       /\ nextId = plant.nextId
       /\ particles = <<>>
       /\ connectionParticleCounts = <<>>
       /\ pc = "idle"
       /\ events = <<>>
       /\ lastOp = Op("init", NULL, "", NULL)
       /\ autoGrowEnabled = FALSE
       /\ ticksSinceLastGrowth = 0
       /\ rollsLeft = 0
       /\ editsLeft = 0
       /\ tickLimit = MaxStepTicks
       /\ idLimit = plant.nextId - 1
       /\ accumulator = 0
       /\ isRunning = FALSE
       /\ lastTickAge = 0
       /\ animationFrameId = "null"
       /\ orphanFrames = 0
       /\ frameKind = "none"

NextStep == Tick \/ StepSimulation

SpecStep == InitStep /\ [][NextStep]_vars

\* the scheduler on the starting plant: callbacks after frames of DeltaTimes,
\* the pause button and the speed buttons (SpeedInputs, two of them outside
\* the range setSpeedMultiplier clamps to) in between
MaxLoopTicks == 6

DeltaTimes == {0, 20 * MS, 130 * MS}

SpeedInputs == {0, SCALE \div 2, 2 * SCALE, 20 * SCALE}

InitLoop ==
    \E plant \in {createInitialPlant(createInitialState(1), 2)} :
       /\ state = plant.state
       /\ nextId = plant.nextId
       /\ particles = <<>>
       /\ connectionParticleCounts = <<>>
       /\ pc = "idle"
       /\ events = <<>>
       /\ lastOp = Op("init", NULL, "", NULL)
       /\ autoGrowEnabled = FALSE
       /\ ticksSinceLastGrowth = 0
       /\ rollsLeft = 0
       /\ editsLeft = 0
       /\ tickLimit = MaxLoopTicks
       /\ idLimit = plant.nextId - 1
       /\ accumulator = 0
       /\ isRunning = FALSE
       /\ lastTickAge = 0
       /\ animationFrameId = "null"
       /\ orphanFrames = 0
       /\ frameKind = "none"

NextLoop ==
    \/ StartSimulation
    \/ StopSimulation
    \/ \E paused \in BOOLEAN : SetPaused(paused)
    \/ \E multiplier \in SpeedInputs : SetSpeedMultiplier(multiplier)
    \/ \E deltaTime \in DeltaTimes : Loop(deltaTime)

SpecLoop == InitLoop /\ [][NextLoop]_vars

\* the starting plant stepped as in SpecStep, with resets of the store
NextReset == Tick \/ StepSimulation \/ ResetState

SpecReset == InitStep /\ [][NextReset]_vars

\* a seed with one leaf, ticked until the leaf's photosynthesis has made it
\* the more concentrated of the two
MaxSapTicks == 60

InitSap == InitFrom(addNode(createInitialState(1), 2, 1, "LEAF", <<0, -1>>, NULL).state, MaxSapTicks, 0)

SpecSap == InitSap /\ [][Tick]_vars

\* a chain of two segments of radius 0.02, the seed and one child of any type,
\* with pressures set through updateNode, stepped manually or phase by phase
MaxGapTicks == 3

ParentPressures == {900000, 200000, SCALE}

ChildPressures == {100000, 0, 990000}

twoSegmentChain(type, parentPressure, childPressure) ==
    LET grown == addNode(createInitialState(1), 2, 1, type,
                         IF type = "ROOT" THEN <<0, 1>> ELSE <<0, -1>>, NULL).state
        parentSet == updateNode(grown, 1, [radius |-> 20000, waterPressure |-> parentPressure]).state
    IN updateNode(parentSet, 2, [radius |-> 20000, waterPressure |-> childPressure]).state

InitGap ==
    \E type \in {"ROOT", "TRUNK", "BRANCH", "LEAF"},
       parentPressure \in ParentPressures, childPressure \in ChildPressures :
       InitFrom(twoSegmentChain(type, parentPressure, childPressure), MaxGapTicks, 0)

NextGap == Tick \/ StepSimulation

SpecGap == InitGap /\ [][NextGap]_vars

\* the resource pool: a stem whose inner trunk, reinforced MaxPoolThicken
\* times, has starved for MaxPoolAged ticks to a stress above 0.3, with the
\* growth heuristic on and one tick short of firing; then MaxPoolTicks manual
\* ticks with modifyResources, addNode and extendNode calls in between
MaxPoolThicken == 48
MaxPoolAged == 120
MaxPoolTicks == 2
MaxPoolId == 4
MaxPoolEdits == 1

PoolDeltas ==
    {[sugar |-> (0 - 85) * SCALE],
     [sugar |-> (0 - 45) * SCALE, minerals |-> (0 - 25) * SCALE],
     [sugar |-> 40 * SCALE, water |-> (0 - 35) * SCALE, minerals |-> 5 * SCALE]}

InitPool ==
    \E aged \in {drought(reinforcedChain(MaxPoolThicken, "TRUNK", 0), MaxPoolAged)} :
       /\ state = aged
       /\ nextId = 4
       /\ particles = <<>>
       /\ connectionParticleCounts = <<>>
       /\ pc = "idle"
       /\ events = <<>>
       /\ lastOp = Op("init", NULL, "", NULL)
       /\ autoGrowEnabled = TRUE
       /\ ticksSinceLastGrowth = BASE_GROWTH_INTERVAL - 2
       /\ rollsLeft = 0
       /\ editsLeft = MaxPoolEdits
       /\ tickLimit = MaxPoolAged + MaxPoolTicks
       /\ idLimit = MaxPoolId
       /\ accumulator = 0
       /\ isRunning = FALSE
       /\ lastTickAge = 0
       /\ animationFrameId = "null"
       /\ orphanFrames = 0
       /\ frameKind = "none"

NextPool ==
    \/ \E parentId \in 1..MaxPoolId, type \in {"ROOT", "LEAF"} :
          \E dir \in GrowDirs(type) : AddNode(parentId, type, dir)
    \/ \E nodeId \in 1..MaxPoolId : ExtendNode(nodeId)
    \/ \E delta \in PoolDeltas : ModifyResources(delta)
    \/ StepSimulation

SpecPool == InitPool /\ [][NextPool]_vars

(***************************************************************************)
(* Markers under structural calls: seed -> trunk 2 -> leaf 3 after one     *)
(* tick whose spawn rolls all came out true, then ticks interleaved with   *)
(* addNode, extendNode and removeNode.                                     *)
(***************************************************************************)
\* the ticks of the run, its Math.random() rolls that may come out true and
\* the largest id the store may hand out in it
MaxFlowTicks == 2
MaxFlowRolls == 1
MaxFlowId == 4

InitFlow ==
    \E aged \in {saturated(reinforcedChain(0, "LEAF", 0), clearParticles, 1)} :
       /\ state = aged.state
       /\ nextId = 4
       /\ particles = aged.pool.particles
       /\ connectionParticleCounts = aged.pool.counts
       /\ pc = "idle"
       /\ events = <<>>
       /\ lastOp = Op("init", NULL, "", NULL)
       /\ autoGrowEnabled = FALSE
       /\ ticksSinceLastGrowth = 0
       /\ rollsLeft = MaxFlowRolls
       /\ editsLeft = 0
       /\ tickLimit = 1 + MaxFlowTicks
       /\ idLimit = MaxFlowId
       /\ accumulator = 0
       /\ isRunning = FALSE
       /\ lastTickAge = 0
       /\ animationFrameId = "null"
       /\ orphanFrames = 0
       /\ frameKind = "none"

NextFlow ==
    \/ \E parentId \in 1..MaxFlowId, type \in {"ROOT", "LEAF"} :
          \E dir \in GrowDirs(type) : AddNode(parentId, type, dir)
    \/ \E nodeId \in 1..MaxFlowId : RemoveNode(nodeId)
    \/ \E nodeId \in 1..MaxFlowId : ExtendNode(nodeId)
    \/ StepSimulation

SpecFlow == InitFlow /\ [][NextFlow]_vars

(***************************************************************************)
(* A plant with a dead segment: the stem of SpecWilt after its inner trunk *)
(* died (seed -> dead trunk 2 -> trunk 3), then ticks, phase by phase and  *)
(* as whole steps, with leaves and roots added between them.               *)
(***************************************************************************)
\* the ticks before the run starts, the ticks of the run and the largest id
\* the store may hand out in it
MaxDeadAged == 75
MaxDeadTicks == 2
MaxDeadId == 4

InitDead ==
    \E aged \in {drought(reinforcedChain(MaxWiltThicken, "TRUNK", MaxThicken), MaxDeadAged)} :
       /\ state = aged
       /\ nextId = 4
       /\ particles = <<>>
       /\ connectionParticleCounts = <<>>
       /\ pc = "idle"
       /\ events = <<>>
       /\ lastOp = Op("init", NULL, "", NULL)
       /\ autoGrowEnabled = FALSE
       /\ ticksSinceLastGrowth = 0
       /\ rollsLeft = 1
       /\ editsLeft = 0
       /\ tickLimit = MaxDeadAged + MaxDeadTicks
       /\ idLimit = MaxDeadId
       /\ accumulator = 0
       /\ isRunning = FALSE
       /\ lastTickAge = 0
       /\ animationFrameId = "null"
       /\ orphanFrames = 0
       /\ frameKind = "none"

NextDead ==
    \/ \E parentId \in 1..MaxDeadId, type \in {"ROOT", "LEAF"} :
          \E dir \in GrowDirs(type) : AddNode(parentId, type, dir)
    \/ Tick
    \/ StepSimulation

SpecDead == InitDead /\ [][NextDead]_vars

(***************************************************************************)
(* A stressed seed next to a stressed trunk: seed -> trunk 2 -> trunk 3,   *)
(* both reinforced until the pair drains the seed's pressure below the     *)
(* dehydration level, aged until both trunks are dead and the seed's       *)
(* stress is above the reinforcement threshold; then the player grows      *)
(* trunk 4 on the seed and reinforces it until it starves, and turns the   *)
(* growth heuristic on.                                                    *)
(***************************************************************************)
\* THICKEN edits of each of the trunks 2 and 3, the ticks before trunk 4 is
\* grown, the ticks between that and the run, the ticks of the run and the
\* largest id the store may hand out in it
MaxMaskThicken == 40
MaxMaskAged == 6000
MaxMaskLate == 57
MaxMaskTicks == 26
MaxMaskId == 6

\* the plant at the start of the run
maskedPlant ==
    LET s0 == modifyResources(reinforcedChain(MaxMaskThicken, "TRUNK", MaxMaskThicken),
                              [sugar |-> MaxWiltThicken * COST_HARDEN * SCALE]).state
        s1 == drought(s0, MaxMaskAged)
        r4 == addNode(s1, 4, 1, "TRUNK", <<1, -1>>, NULL)
    IN drought(reinforce(r4.state, 4, MaxWiltThicken), MaxMaskLate)

InitMask ==
    \E aged \in {maskedPlant} :
       /\ state = aged
       /\ nextId = 5
       /\ particles = <<>>
       /\ connectionParticleCounts = <<>>
       /\ pc = "idle"
       /\ events = <<>>
       /\ lastOp = Op("init", NULL, "", NULL)
       /\ autoGrowEnabled = TRUE
       /\ ticksSinceLastGrowth = BASE_GROWTH_INTERVAL - 4
       /\ rollsLeft = 0
       /\ editsLeft = 0
       /\ tickLimit = MaxMaskAged + MaxMaskLate + MaxMaskTicks
       /\ idLimit = MaxMaskId
       /\ accumulator = 0
       /\ isRunning = FALSE
       /\ lastTickAge = 0
       /\ animationFrameId = "null"
       /\ orphanFrames = 0
       /\ frameKind = "none"

SpecMask == InitMask /\ [][Tick]_vars

(***************************************************************************)
(* The growth heuristic on a stem: seed -> trunk 2 -> trunk 3 -> trunk 4,  *)
(* one tile apart, the heuristic on with its interval about to elapse,     *)
(* then whole ticks.                                                       *)
(***************************************************************************)
\* the ticks of the run and the largest id the store may hand out in it
MaxGrowTicks == 32
MaxGrowId == 7

\* seed -> trunk 2 -> trunk 3 -> trunk 4, straight up
stem ==
    LET r1 == addNode(createInitialState(1), 2, 1, "TRUNK", <<0, -1>>, NULL)
        r2 == addNode(r1.state, 3, 2, "TRUNK", <<0, -2>>, NULL)
    IN addNode(r2.state, 4, 3, "TRUNK", <<0, -3>>, NULL).state

InitGrow ==
    /\ state = stem
    /\ nextId = 5
    /\ particles = <<>>
    /\ connectionParticleCounts = <<>>
    /\ pc = "idle"
    /\ events = <<>>
    /\ lastOp = Op("init", NULL, "", NULL)
    /\ autoGrowEnabled = TRUE
    /\ ticksSinceLastGrowth = BASE_GROWTH_INTERVAL - 1
    /\ rollsLeft = 0
    /\ editsLeft = 0
    /\ tickLimit = MaxGrowTicks
    /\ idLimit = MaxGrowId
    /\ accumulator = 0
    /\ isRunning = FALSE
    /\ lastTickAge = 0
    /\ animationFrameId = "null"
    /\ orphanFrames = 0
    /\ frameKind = "none"

SpecGrow == InitGrow /\ [][StepSimulation]_vars

(***************************************************************************)
(* The pace of the growth heuristic: the seed with a sugar surplus far     *)
(* above the one that shortens the interval to its floor, the scheduler    *)
(* running; single ticks, callbacks of loop() that run five ticks, and     *)
(* setAutoGrow.                                                            *)
(***************************************************************************)
\* the ticks of the run, the setAutoGrow calls and the largest id the store
\* may hand out in it
MaxPaceTicks == 11
MaxPaceEdits == 2
MaxPaceId == 4

\* the sugar added to the pool before the run
PaceSurplus == [sugar |-> 1000 * SCALE]

InitPace ==
    /\ state = modifyResources(createInitialState(1), PaceSurplus).state
    /\ nextId = 2
    /\ particles = <<>>
    /\ connectionParticleCounts = <<>>
    /\ pc = "idle"
    /\ events = <<>>
    /\ lastOp = Op("init", NULL, "", NULL)
    /\ autoGrowEnabled = FALSE
    /\ ticksSinceLastGrowth = 0
    /\ rollsLeft = 0
    /\ editsLeft = MaxPaceEdits
    /\ tickLimit = MaxPaceTicks
    /\ idLimit = MaxPaceId
    /\ accumulator = 0
    /\ isRunning = TRUE
    /\ lastTickAge = 0
    /\ animationFrameId = "pending"
    /\ orphanFrames = 0
    /\ frameKind = "none"

NextPace ==
    \/ StepSimulation
    \/ Loop(5 * TICK_INTERVAL)
    \/ \E enabled \in BOOLEAN : SetAutoGrow(enabled)

SpecPace == InitPace /\ [][NextPace]_vars

(***************************************************************************)
(* The calendar: the seed alone, from the initial state and from shortly   *)
(* before the end of the first day, under ticks run phase by phase and as  *)
(* whole steps, with rain starting or stopping at most once.               *)
(***************************************************************************)
\* the ticks before the run starts (when it does not start at the initial
\* state) and the ticks of the run
MaxDayAged == 1195
MaxDayTicks == 8

InitDay ==
    \E aged \in {0, MaxDayAged} :
       /\ state = drought(createInitialState(1), aged)
       /\ nextId = 2
       /\ particles = <<>>
       /\ connectionParticleCounts = <<>>
       /\ pc = "idle"
       /\ events = <<>>
       /\ lastOp = Op("init", NULL, "", NULL)
       /\ autoGrowEnabled = FALSE
       /\ ticksSinceLastGrowth = 0
       /\ rollsLeft = 1
       /\ editsLeft = 0
       /\ tickLimit = aged + MaxDayTicks
       /\ idLimit = 1
       /\ accumulator = 0
       /\ isRunning = FALSE
       /\ lastTickAge = 0
       /\ animationFrameId = "null"
       /\ orphanFrames = 0
       /\ frameKind = "none"

NextDay == Tick \/ StepSimulation

SpecDay == InitDay /\ [][NextDay]_vars

(***************************************************************************)
(* The weather: the seed alone from the initial state (raining, soil water *)
(* 0.9) and after a long dry spell that has nearly emptied the soil, under *)
(* ticks run phase by phase and as whole steps, every rain trial free to   *)
(* come out either way.                                                    *)
(***************************************************************************)
\* the dry ticks before the run starts (when it does not start at the
\* initial state), the ticks of the run and its rain trials that may succeed
MaxDryAged == 1771
MaxRainTicks == 4
MaxRainRolls == 3

\* the rain stops in the first tick and n - 1 dry ticks follow
dryAged(st, n) ==
    IF n = 0 THEN st
    ELSE drought([tickSystems(st, TRUE).state EXCEPT !.climate.tick = @ + 1], n - 1)

InitRain ==
    \E aged \in {0, MaxDryAged} :
       /\ state = dryAged(createInitialState(1), aged)
       /\ nextId = 2
       /\ particles = <<>>
       /\ connectionParticleCounts = <<>>
       /\ pc = "idle"
       /\ events = <<>>
       /\ lastOp = Op("init", NULL, "", NULL)
       /\ autoGrowEnabled = FALSE
       /\ ticksSinceLastGrowth = 0
       /\ rollsLeft = MaxRainRolls
       /\ editsLeft = 0
       /\ tickLimit = aged + MaxRainTicks
       /\ idLimit = 1
       /\ accumulator = 0
       /\ isRunning = FALSE
       /\ lastTickAge = 0
       /\ animationFrameId = "null"
       /\ orphanFrames = 0
       /\ frameKind = "none"

NextRain == Tick \/ StepSimulation

SpecRain == InitRain /\ [][NextRain]_vars

(***************************************************************************)
(* The sun over a whole day: the seed alone from the initial state (tick   *)
(* 0), ticks run phase by phase and as whole steps, no rain trial          *)
(* succeeding.                                                             *)
(***************************************************************************)
\* the ticks of the run: one day, TICKS_PER_SECOND * SECONDS_PER_DAY
MaxSunTicks == 1200

InitSun ==
    /\ state = createInitialState(1)
    /\ nextId = 2
    /\ particles = <<>>
    /\ connectionParticleCounts = <<>>
    /\ pc = "idle"
    /\ events = <<>>
    /\ lastOp = Op("init", NULL, "", NULL)
    /\ autoGrowEnabled = FALSE
    /\ ticksSinceLastGrowth = 0
    /\ rollsLeft = 0
    /\ editsLeft = 0
    /\ tickLimit = MaxSunTicks
    /\ idLimit = 1
    /\ accumulator = 0
    /\ isRunning = FALSE
    /\ lastTickAge = 0
    /\ animationFrameId = "null"
    /\ orphanFrames = 0
    /\ frameKind = "none"

NextSun == Tick \/ StepSimulation

SpecSun == InitSun /\ [][NextSun]_vars

(***************************************************************************)
(* Root uptake: the seed with one ROOT under it, reinforced, from the      *)
(* start and late in a dry spell, when the soil holds less water than the  *)
(* root; ticks run phase by phase and as whole steps.                      *)
(***************************************************************************)
\* THICKEN edits of the root, the dry ticks before the run starts (when it
\* does not start right after the edits), the ticks of the run and its
\* Math.random() rolls that may succeed
MaxRootThicken == 9
MaxRootAged == 1690
MaxRootTicks == 3
MaxRootRolls == 2

\* seed -> root 2 below it, reinforced k times
rooted(k) ==
    LET s0 == modifyResources(createInitialState(1), [sugar |-> k * COST_HARDEN * SCALE]).state
        r1 == addNode(s0, 2, 1, "ROOT", <<0, 1>>, NULL)
    IN reinforce(r1.state, 2, k)

InitRoot ==
    \E aged \in {0, MaxRootAged} :
       /\ state = dryAged(rooted(MaxRootThicken), aged)
       /\ nextId = 3
       /\ particles = <<>>
       /\ connectionParticleCounts = <<>>
       /\ pc = "idle"
       /\ events = <<>>
       /\ lastOp = Op("init", NULL, "", NULL)
       /\ autoGrowEnabled = FALSE
       /\ ticksSinceLastGrowth = 0
       /\ rollsLeft = MaxRootRolls
       /\ editsLeft = 0
       /\ tickLimit = aged + MaxRootTicks
       /\ idLimit = 2
       /\ accumulator = 0
       /\ isRunning = FALSE
       /\ lastTickAge = 0
       /\ animationFrameId = "null"
       /\ orphanFrames = 0
       /\ frameKind = "none"

NextRoot == Tick \/ StepSimulation

SpecRoot == InitRoot /\ [][NextRoot]_vars

(***************************************************************************)
(* Markers fading out: the seed with one leaf, the seed's pressure far     *)
(* above the leaf's so that the xylem transfer asks for slow markers.      *)
(* Every spawn roll succeeds for a few ticks; then spawning stops (no roll *)
(* succeeds any more) and the ticks go on, phase by phase or as whole      *)
(* steps, for longer than a marker can live.                               *)
(***************************************************************************)
\* the ticks of saturated spawning that may precede the run, and the ticks
\* of the run
MaxFadeAged == 3
MaxFadeTicks == 36

InitFade ==
    \E n \in 0..MaxFadeAged :
       \E aged \in {saturated(twoSegmentChain("LEAF", 900000, 100000), clearParticles, n)} :
          /\ state = aged.state
          /\ nextId = 3
          /\ particles = aged.pool.particles
          /\ connectionParticleCounts = aged.pool.counts
          /\ pc = "idle"
          /\ events = <<>>
          /\ lastOp = Op("init", NULL, "", NULL)
          /\ autoGrowEnabled = FALSE
          /\ ticksSinceLastGrowth = 0
          /\ rollsLeft = 0
          /\ editsLeft = 0
          /\ tickLimit = n + MaxFadeTicks
          /\ idLimit = 2
          /\ accumulator = 0
          /\ isRunning = FALSE
          /\ lastTickAge = 0
          /\ animationFrameId = "null"
          /\ orphanFrames = 0
          /\ frameKind = "none"

NextFade == Tick \/ StepSimulation

SpecFade == InitFade /\ [][NextFade]_vars /\ WF_vars(NextFade)

(***************************************************************************)
(* The scheduler with a listener: the starting plant, the loop started and *)
(* stopped from outside between callbacks and, up to MaxObserverCalls      *)
(* times, by a listener of a tick while that tick runs inside a callback.  *)
(***************************************************************************)
MaxObserverCalls == 2

MaxFrameTicks == 4

FrameTimes == {20 * MS, 60 * MS}

ObserverCalls == {<<"stop">>, <<"stop", "start">>}

InitFrames ==
    \E plant \in {createInitialPlant(createInitialState(1), 2)} :
       /\ state = plant.state
       /\ nextId = plant.nextId
       /\ particles = <<>>
       /\ connectionParticleCounts = <<>>
       /\ pc = "idle"
       /\ events = <<>>
       /\ lastOp = Op("init", NULL, "", NULL)
       /\ autoGrowEnabled = FALSE
       /\ ticksSinceLastGrowth = 0
       /\ rollsLeft = 0
       /\ editsLeft = MaxObserverCalls
       /\ tickLimit = MaxFrameTicks
       /\ idLimit = plant.nextId - 1
       /\ accumulator = 0
       /\ isRunning = FALSE
       /\ lastTickAge = 0
       /\ animationFrameId = "null"
       /\ orphanFrames = 0
       /\ frameKind = "none"

NextFrames ==
    \/ StartSimulation
    \/ StopSimulation
    \/ \E deltaTime \in FrameTimes : Loop(deltaTime)
    \/ \E deltaTime \in FrameTimes, calls \in ObserverCalls : ObservedLoop(deltaTime, calls)

SpecFrames == InitFrames /\ [][NextFrames]_vars

(***************************************************************************)
(* A plant with a dead root: seed -> root 2 -> root 3, left without rain   *)
(* until the soil is dry; then the player reinforces both roots, root 2    *)
(* until its respiration outruns its recovery, and root 2, drained by the  *)
(* thick root below it, dies; the player then grows a canopy of four       *)
(* segments on the seed and turns the growth heuristic on. Ticks, phase by *)
(* phase and as whole steps.                                               *)
(***************************************************************************)
\* the ticks of the dry spell, the THICKEN edits of root 2 and of root 3, the
\* ticks between them and the growing of the canopy, the ticks of the run and
\* the largest id the store may hand out in it
MaxHuskDry == 1900
MaxHuskInner == 53
MaxHuskTip == 39
MaxHuskAged == 80
MaxHuskTicks == 12
MaxHuskId == 9

\* the plant at the start of the run
husk ==
    LET r2 == addNode(createInitialState(1), 2, 1, "ROOT", <<0, 1>>, NULL)
        r3 == addNode(r2.state, 3, 2, "ROOT", <<0, 2>>, NULL)
        dry == dryAged(r3.state, MaxHuskDry)
        paid == modifyResources(dry, [sugar |-> (MaxHuskInner + MaxHuskTip) * COST_HARDEN * SCALE]).state
        aged == drought(reinforce(reinforce(paid, 2, MaxHuskInner), 3, MaxHuskTip), MaxHuskAged)
        t4 == addNode(aged, 4, 1, "TRUNK", <<0, -1>>, NULL)
        t5 == addNode(t4.state, 5, 4, "TRUNK", <<0, -2>>, NULL)
        l6 == addNode(t5.state, 6, 5, "LEAF", <<0, -3>>, NULL)
    IN addNode(l6.state, 7, 4, "BRANCH", <<1, -1>>, NULL).state

InitHusk ==
    \E grown \in {husk} :
       /\ state = grown
       /\ nextId = 8
       /\ particles = <<>>
       /\ connectionParticleCounts = <<>>
       /\ pc = "idle"
       /\ events = <<>>
       /\ lastOp = Op("init", NULL, "", NULL)
       /\ autoGrowEnabled = TRUE
       /\ ticksSinceLastGrowth = BASE_GROWTH_INTERVAL - 1
       /\ rollsLeft = 0
       /\ editsLeft = 0
       /\ tickLimit = MaxHuskDry + MaxHuskAged + MaxHuskTicks
       /\ idLimit = MaxHuskId
       /\ accumulator = 0
       /\ isRunning = FALSE
       /\ lastTickAge = 0
       /\ animationFrameId = "null"
       /\ orphanFrames = 0
       /\ frameKind = "none"

NextHusk == Tick \/ StepSimulation

SpecHusk == InitHusk /\ [][NextHusk]_vars

(***************************************************************************)
(* Markers under structural calls and resets: seed -> trunk 2 -> leaf 3    *)
(* after one tick whose spawn rolls all came out true, then addNode,       *)
(* extendNode, removeNode and resetState calls, and ticks in which no      *)
(* marker is spawned.                                                      *)
(***************************************************************************)
\* the tick count at which the run stops and the largest id the store may
\* hand out in it
MaxReuseTicks == 1
MaxReuseId == 3

InitReuse ==
    \E aged \in {saturated(reinforcedChain(0, "LEAF", 0), clearParticles, 1)} :
       /\ state = aged.state
       /\ nextId = 4
       /\ particles = aged.pool.particles
       /\ connectionParticleCounts = aged.pool.counts
       /\ pc = "idle"
       /\ events = <<>>
       /\ lastOp = Op("init", NULL, "", NULL)
       /\ autoGrowEnabled = FALSE
       /\ ticksSinceLastGrowth = 0
       /\ rollsLeft = 0
       /\ editsLeft = 0
       /\ tickLimit = MaxReuseTicks
       /\ idLimit = MaxReuseId
       /\ accumulator = 0
       /\ isRunning = FALSE
       /\ lastTickAge = 0
       /\ animationFrameId = "null"
       /\ orphanFrames = 0
       /\ frameKind = "none"

NextReuse ==
    \/ \E parentId \in 1..MaxReuseId, type \in {"ROOT", "LEAF"} :
          \E dir \in GrowDirs(type) : AddNode(parentId, type, dir)
    \/ \E nodeId \in 1..MaxReuseId : RemoveNode(nodeId)
    \/ \E nodeId \in 1..MaxReuseId : ExtendNode(nodeId)
    \/ StepSimulation
    \/ ResetState

SpecReuse == InitReuse /\ [][NextReuse]_vars

(***************************************************************************)
(* Properties                                                              *)
(***************************************************************************)
Nodes == state.nodes

Ids == DOMAIN state.nodes

\* how often x occurs in the sequence seq
CountIn(seq, x) == Cardinality({i \in DOMAIN seq : seq[i] = x})

\* following parent pointers from id reaches the seed within `fuel` hops
RECURSIVE ReachesSeed(_, _)
ReachesSeed(id, fuel) ==
    IF id = state.seedId THEN TRUE
    ELSE IF fuel = 0 \/ id \notin Ids THEN FALSE
    ELSE ReachesSeed(Nodes[id].parentId, fuel - 1)

\* C1: the segment table is a single tree rooted at the seed: the seed is in
\* the table and has no parent; every other segment's parent is in the table;
\* an id occurs in a segment's child list exactly once when that segment is
\* its parent and not at all otherwise; every parent chain reaches the seed
\* without revisiting a segment.
C1_SingleTree ==
    /\ state.seedId \in Ids
    /\ Nodes[state.seedId].parentId = NULL
    /\ \A id \in Ids \ {state.seedId} : Nodes[id].parentId \in Ids
    /\ \A a \in Ids : \A i \in DOMAIN Nodes[a].childrenIds : Nodes[a].childrenIds[i] \in Ids
    /\ \A a \in Ids, b \in Ids :
          CountIn(Nodes[a].childrenIds, b) = IF Nodes[b].parentId = a THEN 1 ELSE 0
    /\ \A id \in Ids : ReachesSeed(id, Cardinality(Ids))

\* a tick has run and the last call extended a segment that had children
C1_Witness ==
    /\ state.climate.tick > 0
    /\ lastOp.op = "extendNode"
    /\ lastOp.ret # NULL
    /\ Nodes[lastOp.ret].childrenIds # <<>>

\* C2: the seed segment is in the table and its activity flag is true.
C2_SeedActive ==
    /\ state.seedId \in Ids
    /\ Nodes[state.seedId].isActive

InUnit(x) == 0 <= x /\ x <= SCALE

\* C3: every segment has water pressure, sugar concentration, structural
\* health and stress in [0, 1] and a radius above 0.
C3_FieldsInRange ==
    \A id \in Ids :
        /\ InUnit(Nodes[id].waterPressure)
        /\ InUnit(Nodes[id].sugarConcentration)
        /\ InUnit(Nodes[id].structuralHealth)
        /\ InUnit(Nodes[id].stressLevel)
        /\ Nodes[id].radius > 0

StoreIds == 1..MaxStoreId

GrowTypes == {"ROOT", "TRUNK", "BRANCH", "LEAF"}

Sugar == state.resources.sugar

NodeCount == Cardinality(DOMAIN state.nodes)

\* C4: addNode for a type of cost C on a store holding sugar S: when S < C
\* the whole store is unchanged and no segment is returned; when S >= C and
\* the parent is in the table, sugar decreases by exactly C and the number of
\* segments increases by exactly 1.
C4_AddCharges ==
    [][\A parentId \in StoreIds, type \in GrowTypes : \A dir \in GrowDirs(type) :
          (lastOp'.op = "addNode" /\ AddNode(parentId, type, dir)) =>
             /\ Sugar < getNodeCost(type) => (state' = state /\ lastOp'.ret = NULL)
             /\ (Sugar >= getNodeCost(type) /\ parentId \in Ids) =>
                   /\ Sugar' = Sugar - getNodeCost(type)
                   /\ NodeCount' = NodeCount + 1]_vars

\* an addNode under an existing parent was rejected for lack of sugar, in a
\* tree that earlier accepted one
C4_Witness ==
    /\ lastOp.op = "addNode"
    /\ lastOp.id # NULL
    /\ lastOp.ret = NULL
    /\ Sugar < getNodeCost(lastOp.type)
    /\ NodeCount >= 2

\* C5: an accepted addNode(parent, type, position) creates exactly one
\* segment: it is active, has the requested type, the parent pointer parent
\* and an empty child list, and its id is appended as the last entry of the
\* parent's child list; every other field of every other segment is
\* unchanged.  On the initial store (one seed, sugar 100) adding a TRUNK
\* leaves sugar 80 and the seed's child list equal to <<new id>>.
C5_AddCreatesOne ==
    [][\A parentId \in StoreIds, type \in GrowTypes : \A dir \in GrowDirs(type) :
          (lastOp'.op = "addNode" /\ AddNode(parentId, type, dir) /\ lastOp'.ret # NULL) =>
             LET new == lastOp'.ret
                 after == state'.nodes
             IN /\ new \notin Ids
                /\ DOMAIN after = Ids \cup {new}
                /\ after[new].isActive
                /\ after[new].type = type
                /\ after[new].parentId = parentId
                /\ after[new].childrenIds = <<>>
                /\ after[parentId] = [Nodes[parentId] EXCEPT !.childrenIds = Append(@, new)]
                /\ \A id \in Ids \ {parentId} : after[id] = Nodes[id]
                /\ (state = createInitialState(1) /\ type = "TRUNK") =>
                      /\ Sugar' = 80 * SCALE
                      /\ after[state.seedId].childrenIds = <<new>>]_vars

\* an addNode was accepted under a parent that already had a child
C5_Witness ==
    /\ lastOp.op = "addNode"
    /\ lastOp.id # NULL
    /\ lastOp.ret # NULL
    /\ lastOp.ret \in Ids
    /\ Len(Nodes[lastOp.id].childrenIds) >= 2

GraftIds == 1..MaxGraftId

ExtendTypes == {"TRUNK", "BRANCH", "ROOT"}

\* C6: an accepted extendNode on a trunk, branch or root segment X whose
\* child list is L (of any length) leaves X with the child list <<new>>; the
\* new segment has X's type, the parent X and the child list L; every member
\* of L has the new segment as its parent; the number of segments grows by
\* exactly 1 and sugar decreases by exactly the cost of X's type.
C6_ExtendInserts ==
    [][\A X \in GraftIds :
          (lastOp'.op = "extendNode" /\ ExtendNode(X) /\ lastOp'.ret # NULL) =>
             LET new == lastOp'.ret
                 L == Nodes[X].childrenIds
                 after == state'.nodes
             IN /\ Nodes[X].type \in ExtendTypes
                /\ after[X].childrenIds = <<new>>
                /\ after[new].type = Nodes[X].type
                /\ after[new].parentId = X
                /\ after[new].childrenIds = L
                /\ \A i \in 1..Len(L) : after[L[i]].parentId = new
                /\ NodeCount' = NodeCount + 1
                /\ Sugar' = Sugar - getNodeCost(Nodes[X].type)]_vars

\* a segment with two children was extended: the new segment now holds both
C6_Witness ==
    /\ lastOp.op = "extendNode"
    /\ lastOp.ret # NULL
    /\ lastOp.ret \in Ids
    /\ Len(Nodes[lastOp.ret].childrenIds) = 2
    /\ Nodes[lastOp.id].childrenIds = <<lastOp.ret>>

\* every child of every segment names that segment as its parent
ChildrenPointBack ==
    \A id \in Ids : \A i \in 1..Len(Nodes[id].childrenIds) :
        /\ Nodes[id].childrenIds[i] \in Ids
        /\ Nodes[Nodes[id].childrenIds[i]].parentId = id

\* C7: extendNode is all-or-nothing: when the target is a SEED or a LEAF, or
\* sugar is below the cost of the target's type, the store is unchanged (no
\* child reparented or moved, no segment created, sugar unchanged) and no
\* event is emitted; and in no reachable state has only a part of a
\* segment's children been reparented.
C7_ExtendAllOrNothing ==
    [][\A X \in StoreIds :
          (lastOp'.op = "extendNode" /\ ExtendNode(X) /\ X \in Ids
             /\ (Nodes[X].type \in {"SEED", "LEAF"} \/ Sugar < getNodeCost(Nodes[X].type))) =>
                /\ state' = state
                /\ nextId' = nextId
                /\ events' = <<>>
                /\ lastOp'.ret = NULL
                /\ ChildrenPointBack']_vars

\* an extendNode of a trunk, branch or root segment that has a child was
\* rejected for lack of sugar
C7_Witness ==
    /\ lastOp.op = "extendNode"
    /\ lastOp.id # NULL
    /\ lastOp.ret = NULL
    /\ lastOp.type \in ExtendTypes
    /\ Sugar < getNodeCost(lastOp.type)
    /\ Len(Nodes[lastOp.id].childrenIds) >= 1
    /\ events = <<>>

\* C8: removeNode on a non-seed segment whose subtree (itself and all its
\* descendants) has N segments removes exactly those N segments and no
\* other, so the number of segments decreases by exactly N, and the removed
\* id is no longer in its former parent's child list.
C8_RemoveSubtree ==
    [][\A n \in GraftIds :
          (lastOp'.op = "removeNode" /\ RemoveNode(n) /\ n \in Ids /\ Nodes[n].type # "SEED") =>
             LET subtree == {n} \cup getDescendants(state, n)
                 N == Cardinality(subtree)
                 parent == Nodes[n].parentId
             IN /\ lastOp'.ret = TRUE
                /\ DOMAIN state'.nodes = Ids \ subtree
                /\ NodeCount' = NodeCount - N
                /\ parent \in DOMAIN state'.nodes
                /\ \A i \in 1..Len(state'.nodes[parent].childrenIds) :
                      state'.nodes[parent].childrenIds[i] # n
                /\ \A id \in Ids \ (subtree \cup {parent}) : state'.nodes[id] = Nodes[id]]_vars

\* a subtree of three segments under a parent that keeps another child was
\* removed in one call
C8_Witness ==
    /\ lastOp.op = "removeNode"
    /\ lastOp.ret = TRUE
    /\ lastOp.count - NodeCount = 3
    /\ NodeCount = 2
    /\ events = <<"node:removed">>

\* the call changed neither segments, resources, climate nor selection and
\* emitted no event
SilentNoOp == state' = state /\ events' = <<>>

\* C9: every rejected mutation is a silent no-op: removeNode on the seed or
\* on an id that is not in the table, addNode with a parent id that is not in
\* the table, and extendNode or updateNode on an id that is not in the table
\* each leave segments, resources, climate and selection unchanged, emit no
\* event, and report the failure through the return value (the value
\* returned differs from the one an accepted call returns).
C9_RejectedSilent ==
    [][/\ \A n \in StoreIds :
             (lastOp'.op = "removeNode" /\ RemoveNode(n)
                /\ (n \notin Ids \/ (n \in Ids /\ Nodes[n].type = "SEED"))) =>
                   (SilentNoOp /\ removeNode(state, nextId, n).ret = FALSE)
       /\ \A parentId \in StoreIds \ Ids, type \in GrowTypes : \A dir \in GrowDirs(type) :
             (lastOp'.op = "addNode" /\ AddNode(parentId, type, dir)) =>
                   (SilentNoOp /\ addNode(state, nextId, parentId, type, dir, NULL).ret = NULL)
       /\ \A n \in StoreIds \ Ids :
             (lastOp'.op = "extendNode" /\ ExtendNode(n)) =>
                   (SilentNoOp /\ extendNode(state, nextId, n, <<0, -1>>).ret = NULL)
       /\ \A n \in StoreIds \ Ids :
             (lastOp'.op = "updateNode" /\ UpdateNode(n)) =>
                   (SilentNoOp /\ lastOp'.ret # updateNode(state, state.seedId, [isActive |-> FALSE]).ret)]_vars

\* the live markers on the ordered pair (from, to)
MarkersOn(from, to) ==
    Cardinality({i \in 1..Len(particles) :
                    particles[i].fromNodeId = from /\ particles[i].toNodeId = to})

\* C10: after any sequence of marker spawns (hydraulics transfers, ambient
\* rolls, metabolism), marker integrations and clearParticles calls, the
\* number of live markers never exceeds the global cap (150) and the number
\* of live markers on one ordered (source, destination) pair never exceeds
\* the per-connection cap (2), whatever the number of segments.
C10_MarkerCaps ==
    /\ Len(particles) <= MAX_TOTAL_PARTICLES
    /\ \A i \in 1..Len(particles) :
          MarkersOn(particles[i].fromNodeId, particles[i].toNodeId) <= MAX_PARTICLES_PER_CONNECTION

\* the pool is at the global cap again after arrivals made room: it holds a
\* marker spawned in this tick next to one more than half way, and a pair at
\* the per-connection cap
C10_Witness ==
    /\ Len(particles) = MAX_TOTAL_PARTICLES
    /\ state.climate.tick >= MaxAged
    /\ \E i, j \in 1..Len(particles) :
          /\ particles[i].progress = 0
          /\ 2 * particles[j].progress > SCALE
          /\ MarkersOn(particles[j].fromNodeId, particles[j].toNodeId) = MAX_PARTICLES_PER_CONNECTION

\* the segments of the starting plant
PlantIds == 1..6

\* the local sugar buffer of segment n is empty
Starving(n) == n \in Ids /\ Nodes[n].sugarStore = 0

\* segment n is dead structure
Withered(n) ==
    /\ n \in Ids
    /\ ~Nodes[n].isActive
    /\ Nodes[n].structuralHealth = 0

StarvedTrunkRecovers ==
    pc = "idle" => (Nodes[3].isActive /\ Nodes[3].stressLevel = 0)

WiltIds == 1..MaxWiltId

\* segment n is in the table with its activity flag false
Inactive(n) == n \in Ids /\ ~Nodes[n].isActive

\* segment n is in the terminal state: inactive, structural health 0, stress 1
Terminal(n) ==
    /\ Inactive(n)
    /\ Nodes[n].structuralHealth = 0
    /\ Nodes[n].stressLevel = SCALE

TickCompleted == pc = "idle" /\ lastOp.op \in {"tick", "stepSimulation"}

\* segment n is active with its stress at the death threshold or above
AtThreshold(n) ==
    /\ n \in Ids
    /\ Nodes[n].isActive
    /\ Nodes[n].stressLevel >= STRESS_DEATH_THRESHOLD

\* at the end of a tick no active segment is at the threshold
BelowThresholdAtTickEnd == TickCompleted => \A n \in Ids : ~AtThreshold(n)

\* C13: at the end of every completed tick every segment that is still
\* active has stress strictly below the death threshold, and a segment whose
\* stress reached the threshold during the tick (in respiration, which runs
\* before the stress step, or in the stress step itself) is inactive once the
\* stress step of that same tick has run.
C13_ThresholdKills ==
    /\ []BelowThresholdAtTickEnd
    /\ [][(pc = "stress" /\ pc' = "autogrow") =>
             \A n \in Ids : AtThreshold(n) => ~state'.nodes[n].isActive]_vars

\* the phases of one simulation step, by the names the steps leave in lastOp
Phases ==
    <<"climate", "transpiration", "rootUptake", "xylem", "phloem", "particles",
      "photosynthesis", "respiration", "stress", "autogrow", "tick">>

\* C14: every simulation step runs its phases exactly once each in the order
\* climate; transpiration, root uptake, xylem, phloem, marker integration;
\* photosynthesis, respiration, stress/health; growth heuristic; tick-counter
\* increment: a phase runs only right after the phase before it (the first
\* only when no step is in progress), a started step goes on with the next
\* phase, and the counter moves only at the end.  Each phase works on the
\* writes of the phases before it: the store a step ends with is the one
\* obtained by applying the systems in that order, each to the result of
\* the one before, whichever entry point ran the step.
C14_PhaseOrder ==
    /\ [][/\ \A i \in 2..Len(Phases) : lastOp'.op = Phases[i] => lastOp.op = Phases[i - 1]
          /\ lastOp'.op = Phases[1] => (pc = "idle" /\ lastOp.op \in {"init", "tick", "stepSimulation"})
          /\ \A i \in 1..(Len(Phases) - 1) : lastOp.op = Phases[i] => lastOp'.op = Phases[i + 1]
          /\ state'.climate.tick =
                state.climate.tick + (IF lastOp'.op \in {"tick", "stepSimulation"} THEN 1 ELSE 0)]_vars
    /\ [](TickCompleted =>
            state = drought(createInitialPlant(createInitialState(1), 2).state, state.climate.tick))

\* several steps have completed, the last one phase by phase
C14_Witness ==
    /\ TickCompleted
    /\ lastOp.op = "tick"
    /\ state.climate.tick = MaxStepTicks
    /\ Nodes[2].sugarConcentration < Nodes[1].sugarConcentration

\* C15: a scheduler callback with elapsed time d that finds the store paused
\* runs no step and leaves the accumulator as it was; otherwise the
\* accumulator grows by d times the speed multiplier the store held when the
\* callback began, the callback runs floor(accumulator / TICK_INTERVAL) steps,
\* and it leaves the accumulator in [0, TICK_INTERVAL).
C15_FixedTimestep ==
    [][\A d \in DeltaTimes :
         (lastOp'.op = "loop" /\ lastOp'.id = d) =>
            IF state.isPaused
            THEN /\ state'.climate.tick = state.climate.tick
                 /\ accumulator' = accumulator
            ELSE /\ state'.climate.tick - state.climate.tick =
                      (accumulator + MulU(d, state.speedMultiplier)) \div TICK_INTERVAL
                 /\ accumulator' = (accumulator + MulU(d, state.speedMultiplier)) % TICK_INTERVAL
                 /\ accumulator' >= 0
                 /\ accumulator' < TICK_INTERVAL]_vars

\* a callback at double speed has just run several steps and kept a remainder
C15_Witness ==
    /\ lastOp.op = "loop"
    /\ lastOp.id = 130 * MS
    /\ state.speedMultiplier = 2 * SCALE
    /\ Len(events) = 5
    /\ accumulator = 30 * MS

\* a callback has found the store paused with time on the accumulator
C15_PausedWitness ==
    /\ lastOp.op = "loop"
    /\ lastOp.id = 130 * MS
    /\ state.isPaused
    /\ accumulator > 0
    /\ events = <<>>

\* the step has emitted a 'tick' event
EmitsTick == \E i \in DOMAIN events' : events'[i] = "tick"

\* the step completes a simulation step
CompletesStep == lastOp'.op \in {"tick", "stepSimulation"}

\* C16: each completed simulation step emits exactly one 'tick' event, which
\* carries the incremented tick counter and comes after all the updates of
\* the step; the counter goes up by exactly 1 with each completed step; and
\* 'tick' events are emitted only by completed steps.
C16_TickEvents ==
    /\ [][CompletesStep =>
            /\ events' = <<"tick">>
            /\ lastOp'.ret = state'.climate.tick
            /\ state'.climate.tick = state.climate.tick + 1
            /\ state' = [state EXCEPT !.climate.tick = @ + 1] \/ lastOp'.op = "stepSimulation"
            /\ pc' = "idle"]_vars
    /\ [][EmitsTick => CompletesStep]_vars

\* the parent-child edges of the tree with both ends active
ActiveEdges ==
    {e \in Ids \X Ids : /\ Nodes[e[2]].parentId = e[1]
                        /\ Nodes[e[1]].isActive
                        /\ Nodes[e[2]].isActive}

\* in this step concentration and local sugar move from segment a to segment b
MovesSugar(a, b) ==
    /\ state'.nodes[a].sugarConcentration < Nodes[a].sugarConcentration
    /\ state'.nodes[b].sugarConcentration > Nodes[b].sugarConcentration
    /\ state'.nodes[a].sugarStore < Nodes[a].sugarStore
    /\ state'.nodes[b].sugarStore > Nodes[b].sugarStore

\* C17: a phloem transfer across a parent-child edge whose concentrations
\* differ by more than FLOW_THRESHOLD moves both concentration and part of the
\* local sugar buffer from the more concentrated segment to the less
\* concentrated one, whichever of the two is the donor: when the child is the
\* more concentrated, its buffer decreases and the parent's increases.  (On
\* the chain of two segments the edge is the only one of the phloem step.)
C17_PhloemBothWays ==
    [][lastOp'.op = "phloem" =>
         \A e \in ActiveEdges :
            /\ Nodes[e[1]].sugarConcentration - Nodes[e[2]].sugarConcentration > FLOW_THRESHOLD
                  => MovesSugar(e[1], e[2])
            /\ Nodes[e[2]].sugarConcentration - Nodes[e[1]].sugarConcentration > FLOW_THRESHOLD
                  => MovesSugar(e[2], e[1])]_vars

\* the part of C17 that holds: parent to child moves both, and child to
\* parent moves the concentration
PhloemDownMovesBoth ==
    [][lastOp'.op = "phloem" =>
         \A e \in ActiveEdges :
            /\ Nodes[e[1]].sugarConcentration - Nodes[e[2]].sugarConcentration > FLOW_THRESHOLD
                  => MovesSugar(e[1], e[2])
            /\ Nodes[e[2]].sugarConcentration - Nodes[e[1]].sugarConcentration > FLOW_THRESHOLD
                  => /\ state'.nodes[e[2]].sugarConcentration < Nodes[e[2]].sugarConcentration
                     /\ state'.nodes[e[1]].sugarConcentration > Nodes[e[1]].sugarConcentration
                     /\ state'.nodes[e[2]].sugarStore = Nodes[e[2]].sugarStore
                     /\ state'.nodes[e[1]].sugarStore = Nodes[e[1]].sugarStore]_vars

\* root n is active under an active parent and exceeds the parent's pressure
\* by more than FLOW_THRESHOLD
RootAboveParent(n) ==
    /\ n \in Ids
    /\ Nodes[n].type = "ROOT"
    /\ Nodes[n].isActive
    /\ Nodes[n].parentId \in Ids
    /\ Nodes[Nodes[n].parentId].isActive
    /\ Nodes[n].waterPressure - Nodes[Nodes[n].parentId].waterPressure > FLOW_THRESHOLD

\* C18: xylem carries pressure from the roots toward the leaves: whenever an
\* active root's pressure exceeds that of its active parent by more than
\* FLOW_THRESHOLD, the xylem step of that tick raises the parent's pressure.
C18_XylemUpFromRoots ==
    [][lastOp'.op = "xylem" =>
         \A n \in PlantIds :
            RootAboveParent(n) =>
               state'.nodes[Nodes[n].parentId].waterPressure > Nodes[Nodes[n].parentId].waterPressure]_vars

\* what the xylem step does instead: no pressure leaves a segment for its
\* parent, so a segment's pressure never rises unless its parent's was higher
XylemOnlyDown ==
    [][lastOp'.op = "xylem" =>
         \A n \in PlantIds :
            state'.nodes[n].waterPressure > Nodes[n].waterPressure =>
               /\ Nodes[n].parentId # NULL
               /\ Nodes[Nodes[n].parentId].waterPressure > Nodes[n].waterPressure]_vars

\* the pressure gap of the two-segment chain: parent minus child
Gap == Nodes[1].waterPressure - Nodes[2].waterPressure

\* the chain of the scenario: both active, radii 0.02, pressures 0.9 and 0.1
GapScenario ==
    /\ Ids = {1, 2}
    /\ Nodes[1].isActive /\ Nodes[2].isActive
    /\ Nodes[1].radius = 20000 /\ Nodes[2].radius = 20000
    /\ Nodes[1].waterPressure = 900000
    /\ Nodes[2].waterPressure = 100000

\* C19: one manual tick on a chain of two active segments with radii 0.02,
\* parent pressure 0.9 and child pressure 0.1 leaves the gap (parent minus
\* child) strictly smaller than before; and a xylem transfer across an edge
\* (on the chain of two, the whole xylem step) strictly reduces the
\* parent-minus-child difference whenever it exceeds FLOW_THRESHOLD.
C19_GapShrinks ==
    /\ [][(lastOp'.op = "stepSimulation" /\ GapScenario) => Gap' < Gap]_vars
    /\ [][(lastOp'.op = "xylem" /\ Nodes[1].isActive /\ Nodes[2].isActive /\ Gap > FLOW_THRESHOLD)
            => Gap' < Gap]_vars

\* the manual tick of the scenario has run on a chain with a branch
C19_Witness ==
    /\ lastOp.op = "stepSimulation"
    /\ state.climate.tick = 1
    /\ Nodes[2].type = "BRANCH"
    /\ Nodes[1].waterPressure = 893600
    /\ Nodes[2].waterPressure = 106080

\* C20: the three global resources, sugar, water and minerals, are never
\* negative, whatever modifyResources calls with positive or negative deltas,
\* addNode and extendNode debits, reinforcement debits of the growth
\* heuristic and ticks have run.
C20_ResourcesNonNegative ==
    /\ state.resources.sugar >= 0
    /\ state.resources.water >= 0
    /\ state.resources.minerals >= 0

\* the growth heuristic has just paid for a reinforcement out of a pool that
\* a negative delta had brought close to the heuristic's floor of 20
C20_Witness ==
    /\ lastOp.op = "stepSimulation"
    /\ Nodes[2].radius > reinforcedChain(MaxPoolThicken, "TRUNK", 0).nodes[2].radius
    /\ state.resources.sugar < 20 * SCALE
    /\ state.resources.minerals = 0

\* the segments a and b are adjacent in the tree: both are in the table and
\* one is the parent of the other
Adjacent(a, b) ==
    /\ a \in Ids
    /\ b \in Ids
    /\ (Nodes[a].parentId = b \/ Nodes[b].parentId = a)

\* C21: every live flow marker connects two segments that are adjacent in the
\* tree at that moment, in every state reached by ticks interleaved with
\* addNode, extendNode and removeNode calls
C21_MarkersAdjacent ==
    \A i \in 1..Len(particles) : Adjacent(particles[i].fromNodeId, particles[i].toNodeId)

\* extendNode put a new segment between the two ends of a live marker: both
\* ends are still in the table and neither is the parent of the other
C21_ExtendSplitsMarker ==
    ~ (/\ lastOp.op = "extendNode"
       /\ lastOp.ret # NULL
       /\ \E i \in 1..Len(particles) :
             /\ particles[i].fromNodeId \in Ids
             /\ particles[i].toNodeId \in Ids
             /\ ~ Adjacent(particles[i].fromNodeId, particles[i].toNodeId))

\* C22: at the end of every completed tick every live marker has progress in
\* [0, 1) and both its source and its destination are in the segment table
C22_MarkersLiveAtTickEnd ==
    TickCompleted =>
        \A i \in 1..Len(particles) :
            /\ 0 <= particles[i].progress
            /\ particles[i].progress < SCALE
            /\ particles[i].fromNodeId \in Ids
            /\ particles[i].toNodeId \in Ids

\* a tick completed after leaf 2 was pruned and after the first markers
\* arrived: the pool is below the global cap it started at, and it holds
\* markers both under way and fresh
C22_Witness ==
    /\ TickCompleted
    /\ 2 \notin Ids
    /\ state.climate.tick > MaxAged
    /\ Len(particles) < MAX_TOTAL_PARTICLES
    /\ \E i, j \in 1..Len(particles) :
          /\ particles[i].progress = 0
          /\ 2 * particles[j].progress > SCALE

\* the simulation fields of segment n
SimFields(n) ==
    <<Nodes[n].waterPressure, Nodes[n].sugarConcentration, Nodes[n].sugarStore,
      Nodes[n].stressLevel, Nodes[n].structuralHealth, Nodes[n].isActive>>

\* segment n is active and every segment it shares an edge with is inactive
Isolated(n) ==
    /\ Nodes[n].isActive
    /\ Nodes[n].parentId \in Ids => ~Nodes[Nodes[n].parentId].isActive
    /\ \A m \in Ids : Nodes[m].parentId = n => ~Nodes[m].isActive

\* C23: a tick (each of its phases, and the whole step) removes no segment
\* and changes no simulation field (pressure, concentration, buffer, stress,
\* health, activity) of a segment that was inactive before it; the xylem and
\* phloem transfers never use an inactive segment as donor or receiver: an
\* active segment whose every neighbour is inactive keeps its pressure in
\* the xylem phase and its concentration and buffer in the phloem phase
C23_InactiveFrame ==
    [][lastOp'.op \in SeqToSet(Phases) \cup {"stepSimulation"} =>
          /\ Ids \subseteq DOMAIN state'.nodes
          /\ \A n \in Ids : ~Nodes[n].isActive => SimFields(n)' = SimFields(n)
          /\ lastOp'.op = "xylem" =>
                \A n \in Ids : Isolated(n) =>
                    state'.nodes[n].waterPressure = Nodes[n].waterPressure
          /\ lastOp'.op = "phloem" =>
                \A n \in Ids : Isolated(n) =>
                    /\ state'.nodes[n].sugarConcentration = Nodes[n].sugarConcentration
                    /\ state'.nodes[n].sugarStore = Nodes[n].sugarStore]_vars

\* the phloem phase of a tick ran on a plant whose dead trunk 2 sits between
\* the seed and the active trunk 3, the seed's pressure above the dead
\* trunk's and the dead trunk's concentration above both neighbours' by more
\* than the flow threshold, and with a leaf grown on the dead trunk
C23_Witness ==
    /\ lastOp.op = "phloem"
    /\ ~Nodes[2].isActive
    /\ Nodes[1].isActive /\ Nodes[3].isActive
    /\ Nodes[1].waterPressure - Nodes[2].waterPressure > FLOW_THRESHOLD
    /\ Nodes[2].sugarConcentration - Nodes[1].sugarConcentration > FLOW_THRESHOLD
    /\ Nodes[2].sugarConcentration - Nodes[3].sugarConcentration > FLOW_THRESHOLD
    /\ \E m \in Ids : Nodes[m].type = "LEAF" /\ Nodes[m].parentId = 2 /\ Nodes[m].isActive

\* the active trunk, branch and root segments with stress above the
\* reinforcement threshold
StressedEligible ==
    {n \in Ids : /\ Nodes[n].isActive
                 /\ Nodes[n].type \in {"TRUNK", "BRANCH", "ROOT"}
                 /\ Nodes[n].stressLevel > 300000}

\* the growth heuristic is at its turn in the tick and fires: it is enabled,
\* its interval has elapsed and the currency covers its minimum, hence a
\* reinforcement
HeuristicFires ==
    /\ pc = "autogrow"
    /\ autoGrowEnabled
    /\ (ticksSinceLastGrowth + 1) * SCALE >= growthInterval(state)
    /\ state.resources.sugar >= 20 * SCALE
    /\ state.resources.sugar >= COST_HARDEN * SCALE

\* C24: whenever the growth heuristic fires with enough currency for a
\* reinforcement and some active trunk, branch or root has stress above 0.3,
\* the action it takes is to reinforce (THICKEN) a most-stressed such segment
C24_ReinforceFirst ==
    [][(HeuristicFires /\ StressedEligible # {} /\ lastOp'.op = "autogrow") =>
          /\ lastOp'.type = "THICKEN"
          /\ lastOp'.id \in StressedEligible
          /\ \A n \in StressedEligible : Nodes[n].stressLevel <= Nodes[lastOp'.id].stressLevel]_vars

\* what decideAction does: it reinforces the most-stressed active segment of
\* any type when that one is a trunk, branch or root with stress above 0.3
ReinforcesWeakestIfEligible ==
    [][(HeuristicFires /\ lastOp'.op = "autogrow"
        /\ weakestNode(state) \in StressedEligible) =>
          /\ lastOp'.type = "THICKEN"
          /\ lastOp'.id = weakestNode(state)]_vars

\* no two segments are in the same grid cell
CellsApart == \A a, b \in Ids : a # b => Nodes[a].position # Nodes[b].position

\* C25: starting from a plant in which no two segments occupy the same grid
\* cell, after any sequence of actions of the growth heuristic no two
\* segments occupy the same grid cell
C25_NoOverlap == CellsApart

\* a tick in which the heuristic added a segment as a new child of its
\* target and re-parented nothing (a GROW, which tests the target cell, not
\* an EXTEND) keeps the segments in cells of their own
GrowKeepsCellsApart ==
    [][(CellsApart /\ Cardinality(DOMAIN state'.nodes) > Cardinality(Ids)
        /\ \A n \in Ids : \/ state'.nodes[n].childrenIds = Nodes[n].childrenIds
                          \/ state'.nodes[n].childrenIds = Append(Nodes[n].childrenIds, nextId))
          => CellsApart']_vars

\* the structural mutations between the stores old and new: the segments
\* added (grow, extend) and the reinforcements (a radius grown by a fifth
\* counts one, any other change of a radius two)
Mutations(old, new) ==
    LET kept == DOMAIN old.nodes \cap DOMAIN new.nodes
        reinforced(n) == IF new.nodes[n].radius = old.nodes[n].radius THEN 0
                         ELSE IF new.nodes[n].radius = Frac(old.nodes[n].radius, 12, 10) THEN 1
                         ELSE 2
        RECURSIVE sum(_)
        sum(S) == IF S = {} THEN 0
                  ELSE LET n == CHOOSE x \in S : TRUE IN reinforced(n) + sum(S \ {n})
    IN Cardinality(DOMAIN new.nodes \ DOMAIN old.nodes) + sum(kept)

\* C26: the growth heuristic performs at most one structural mutation in any
\* window of 5 consecutive ticks (a callback of loop() that runs five ticks,
\* from any point of the heuristic's interval), however large the sugar
\* surplus, and none in any tick while it is disabled
C26_OncePerFiveTicks ==
    [][lastOp'.op \in {"loop", "stepSimulation"} =>
          /\ state'.climate.tick - state.climate.tick <= 5 => Mutations(state, state') <= 1
          /\ ~autoGrowEnabled => Mutations(state, state') = 0]_vars

\* a callback of loop() ran five ticks with the heuristic on and the surplus
\* still above 400, and the heuristic added one segment in them
C26_Witness ==
    /\ lastOp.op = "loop"
    /\ autoGrowEnabled
    /\ Len(events) = 5
    /\ state.resources.sugar > 450 * SCALE
    /\ Cardinality(Ids) = lastOp.count + 1

\* the tick that starts now is the first of a new day: the tick counter is a
\* positive multiple of the day length, so the day fraction computed from it
\* wraps to 0
DayWraps ==
    /\ state.climate.tick > 0
    /\ state.climate.tick % (TICKS_PER_SECOND * SECONDS_PER_DAY) = 0

\* C27: the day counter increases by exactly 1 on each tick at which the day
\* fraction wraps to 0 and is unchanged on every other tick, the very first
\* tick from the initial state included (there the stored fraction falls
\* from 0.25 to 0 and the day stays 1); no phase after the climate phase
\* changes it
C27_DayCounter ==
    [][/\ lastOp'.op \in {"climate", "stepSimulation"} =>
             /\ state'.climate.day = state.climate.day + (IF DayWraps THEN 1 ELSE 0)
             /\ DayWraps => state'.climate.dayProgress = 0
             /\ state.climate.tick = 0 =>
                   state'.climate.day = 1 /\ state'.climate.dayProgress = 0
       /\ lastOp'.op \in SeqToSet(Phases) \ {"climate"} =>
             state'.climate.day = state.climate.day]_vars

\* the climate phase of the first tick of the second day has run
C27_Witness ==
    /\ lastOp.op = "climate"
    /\ state.climate.tick = TICKS_PER_SECOND * SECONDS_PER_DAY
    /\ state.climate.dayProgress = 0
    /\ state.climate.day = 2

\* the steps that run the climate driver
RunsClimate(op) == op \in {"climate", "stepSimulation"}

\* C28: whatever the rain trials give, soil water stays within [0, 1]; a tick
\* that ends raining raises it by the rain rate, capped at 1, and never
\* lowers it; a tick that ends dry never raises it; the raining flag only
\* changes in the climate driver and only when its trial of the tick
\* succeeds, and nothing else in a tick touches the flag or the soil water
C28_SoilWaterAndRain ==
    [][/\ state'.climate.soilWater >= 0
       /\ state'.climate.soilWater <= SCALE
       /\ (RunsClimate(lastOp'.op) /\ state'.climate.isRaining)
             => /\ state'.climate.soilWater
                      = Min(SCALE, state.climate.soilWater + RAIN_WATER_RATE)
                /\ state'.climate.soilWater >= state.climate.soilWater
       /\ (RunsClimate(lastOp'.op) /\ ~state'.climate.isRaining)
             => state'.climate.soilWater <= state.climate.soilWater
       /\ state'.climate.isRaining # state.climate.isRaining
             => RunsClimate(lastOp'.op) /\ rollsLeft' < rollsLeft
       /\ ~RunsClimate(lastOp'.op)
             => state'.climate.soilWater = state.climate.soilWater]_vars

\* the rain has stopped and started again, and a rainy tick has then filled
\* the soil to the brim
C28_Witness ==
    /\ RunsClimate(lastOp.op)
    /\ state.climate.isRaining
    /\ state.climate.soilWater = SCALE
    /\ rollsLeft + 2 <= MaxRainRolls

\* a dry tick of the run has taken the last water out of the soil
DryEmptiesSoil ==
    /\ lastOp.op = "climate"
    /\ ~state.climate.isRaining
    /\ state.climate.soilWater = 0
    /\ state.climate.tick > MaxDryAged

\* C29: the climate driver run at tick 0, where the day fraction is 0, sets
\* the sun intensity to MIN_SUN_INTENSITY exactly, and whenever it runs the
\* sun intensity it writes is at least MIN_SUN_INTENSITY, not negative and
\* at most 1
C29_SunIntensityBounds ==
    [][RunsClimate(lastOp'.op)
         => /\ state'.climate.sunIntensity >= MIN_SUN_INTENSITY
            /\ state'.climate.sunIntensity >= 0
            /\ state'.climate.sunIntensity <= SCALE
            /\ state.climate.tick = 0
                  => /\ state'.climate.dayProgress = 0
                     /\ state'.climate.sunIntensity = MIN_SUN_INTENSITY]_vars

\* the driver has just run at tick 0 and has replaced the initial sun
\* intensity (0.5) by the floor
C29_Witness ==
    /\ lastOp.op = "climate"
    /\ state.climate.tick = 0
    /\ state.climate.dayProgress = 0
    /\ state.climate.sunIntensity = MIN_SUN_INTENSITY
    /\ state.climate.sunIntensity # createInitialState(1).climate.sunIntensity

\* the driver has written the full intensity at noon
SunAtNoon ==
    /\ lastOp.op = "climate"
    /\ state.climate.dayProgress = SCALE \div 2
    /\ state.climate.sunIntensity = SCALE

\* the driver has written the floor in the night, where the sine is negative
SunAtNight ==
    /\ lastOp.op = "climate"
    /\ state.climate.dayProgress > 750000
    /\ state.climate.sunIntensity = MIN_SUN_INTENSITY

\* the soil water available to segment n at its depth
SoilWaterFor(n) == getSoilWaterAtDepth(state, Abs(n.position[2]) * 250000)

\* C30: root uptake never raises the pressure of a root whose pressure is
\* at or above the soil water at its depth, never raises a root's pressure
\* above 1, and when it raises a pressure, raises it by ROOT_UPTAKE_RATE
\* times the radius times (soil water at depth minus own pressure), up to
\* the cap
C30_UptakeFollowsGradient ==
    [][lastOp'.op = "rootUptake"
         => \A id \in Ids :
               Nodes[id].type = "ROOT"
                  => LET root == Nodes[id]
                         after == state'.nodes[id].waterPressure
                         gradient == SoilWaterFor(root) - root.waterPressure
                     IN /\ gradient <= 0 => after <= root.waterPressure
                        /\ after <= SCALE
                        /\ after > root.waterPressure
                              => after - root.waterPressure
                                   = Min(SCALE - root.waterPressure,
                                         MulU(MulU(ROOT_UPTAKE_RATE, root.radius), gradient))]_vars

\* root uptake leaves every root's pressure at 1 or below, and leaves alone
\* the roots that are saturated (0.95 or more) or whose soil is dry (0.1 or
\* less)
UptakeCappedAndGuarded ==
    [][lastOp'.op = "rootUptake"
         => \A id \in Ids :
               Nodes[id].type = "ROOT"
                  => /\ state'.nodes[id].waterPressure <= SCALE
                     /\ (Nodes[id].waterPressure >= 950000 \/ SoilWaterFor(Nodes[id]) <= 100000)
                           => state'.nodes[id].waterPressure = Nodes[id].waterPressure]_vars

\* root uptake has just raised the pressure of a root that the soil at its
\* depth could not feed
UptakeAgainstGradient ==
    /\ lastOp.op = "rootUptake"
    /\ state.climate.tick >= MaxRootAged
    /\ \E id \in Ids :
          /\ Nodes[id].type = "ROOT"
          /\ Nodes[id].waterPressure > SoilWaterFor(Nodes[id]) + 30000

\* C31: respiration never overdraws a local sugar buffer: an active segment
\* whose buffer covers its maintenance cost pays exactly the cost and keeps
\* its stress, any other active segment is left with an empty buffer and
\* its stress raised by shortfall * STARVATION_STRESS_RATE, capped at 1;
\* and no segment ever holds a negative buffer
C31_RespirationNeverOverdraws ==
    /\ [](\A id \in Ids : Nodes[id].sugarStore >= 0)
    /\ [][lastOp'.op = "respiration"
            => \A id \in Ids :
                  Nodes[id].isActive
                     => LET node == Nodes[id]
                            cost == respirationCost(node)
                            after == state'.nodes[id]
                        IN IF node.sugarStore >= cost
                           THEN /\ after.sugarStore = node.sugarStore - cost
                                /\ after.stressLevel = node.stressLevel
                           ELSE /\ after.sugarStore = 0
                                /\ after.stressLevel
                                     = Min(SCALE, node.stressLevel
                                             + MulU(cost - node.sugarStore,
                                                    STARVATION_STRESS_RATE))]_vars

\* respiration has just emptied the buffer of a segment that could not pay
\* and raised its stress, and has charged the full cost to another one
C31_Witness ==
    /\ lastOp.op = "respiration"
    /\ \E a, b \in Ids :
          /\ Nodes[a].isActive
          /\ Nodes[a].sugarStore = 0
          /\ Nodes[a].stressLevel > 0
          /\ Nodes[b].isActive
          /\ Nodes[b].sugarStore > 0

\* the parent-child edges in the order processPhloemFlow visits them
RECURSIVE phloemEdgesFrom(_, _)
phloemEdgesFrom(ids, i) ==
    IF i > Len(ids) THEN <<>>
    ELSE LET children == getChildren(state, ids[i])
             own == IF Nodes[ids[i]].isActive
                    THEN [k \in 1..Len(children) |-> <<ids[i], children[k]>>]
                    ELSE <<>>
         IN own \o phloemEdgesFrom(ids, i + 1)

PhloemEdges == phloemEdgesFrom(nodeOrder(Nodes), 1)

\* the local sugar buffers of the two ends of edge e in the table nodes
BufferSum(nodes, e) == nodes[e[1]].sugarStore + nodes[e[2]].sugarStore

\* the transfer over edge e made from acc moves sugar out of a parent that
\* holds less than the amount
DonorShortAt(acc, e) ==
    LET node == acc.state.nodes[e[1]]
        child == acc.state.nodes[e[2]]
    IN /\ child.isActive
       /\ node.sugarConcentration - child.sugarConcentration > FLOW_THRESHOLD
       /\ node.sugarStore < phloemActualFlow(node, child)

\* the transfer over edge e made from acc takes out of the donor what it
\* gives, and a tenth more, or moves no sugar
LosesTenthAt(acc, e) ==
    LET node == acc.state.nodes[e[1]]
        child == acc.state.nodes[e[2]]
        flow == phloemActualFlow(node, child)
        after == phloemEdge(acc, e[1], e[2]).state.nodes
    IN IF child.isActive
          /\ node.sugarConcentration - child.sugarConcentration > FLOW_THRESHOLD
       THEN BufferSum(after, e) = BufferSum(acc.state.nodes, e) - flow + Frac(flow, 9, 10)
       ELSE BufferSum(after, e) = BufferSum(acc.state.nodes, e)

\* P(acc, e) for some (some = TRUE) or for every (some = FALSE) transfer of
\* the phloem step from edge i on, acc being the store the i-th starts from
RECURSIVE PhloemTransfers(_, _, _, _, _)
PhloemTransfers(P(_, _), some, acc, edges, i) ==
    IF i > Len(edges) THEN ~some
    ELSE IF P(acc, edges[i]) = some THEN some
    ELSE Then(phloemEdge(acc, edges[i][1], edges[i][2]),
              LAMBDA next : PhloemTransfers(P, some, next, edges, i + 1))

\* the transfer over edge e made from acc leaves the sum of the two ends'
\* buffers no larger than it was
NoSugarMadeAt(acc, e) ==
    BufferSum(phloemEdge(acc, e[1], e[2]).state.nodes, e) <= BufferSum(acc.state.nodes, e)

\* C32: a phloem transfer never creates sugar: across each transfer of a
\* phloem step, taken one after the other in the order of the step, the sum
\* of the two ends' local sugar buffers does not increase, also when the
\* donor holds less than the amount transferred
C32_PhloemCreatesNoSugar ==
    pc = "phloem" => PhloemTransfers(NoSugarMadeAt, FALSE, Acc(state), PhloemEdges, 1)

\* a transfer whose donor holds the amount loses a tenth of it on the way,
\* and every other transfer moves no sugar or has a donor that is short
PhloemLosesTenthWhenCovered ==
    pc = "phloem"
       => PhloemTransfers(LAMBDA acc, e : DonorShortAt(acc, e) \/ LosesTenthAt(acc, e),
                          FALSE, Acc(state), PhloemEdges, 1)

\* the phloem step is about to make a transfer out of a parent that holds
\* less than the amount
DonorShort ==
    /\ pc = "phloem"
    /\ PhloemTransfers(DonorShortAt, TRUE, Acc(state), PhloemEdges, 1)

RECURSIVE TotalStore(_, _)
TotalStore(nodes, S) ==
    IF S = {} THEN 0
    ELSE LET id == CHOOSE x \in S : TRUE
         IN nodes[id].sugarStore + TotalStore(nodes, S \ {id})

\* the sugar the photosynthesis step of the current state produces: what
\* each producing segment would add to its own buffer
Produced ==
    TotalStore([id \in Ids |-> [sugarStore |-> IF /\ Nodes[id].isActive
                                                  /\ (Nodes[id].type = "LEAF"
                                                        \/ Len(Nodes[id].childrenIds) = 0)
                                                  /\ Nodes[id].waterPressure
                                                        >= MIN_WATER_FOR_PHOTOSYNTHESIS
                                               THEN sugarProducedBy(state, Nodes[id])
                                               ELSE 0]], Ids)

\* C34: with the growth heuristic off and no edit made, a tick never lowers
\* the global sugar pool: the photosynthesis step raises it by exactly the
\* sugar produced, which is also what the segments' local buffers gain in
\* that step, and every other step of the tick (respiration and the phloem
\* step among them) leaves the pool as it was
C34_PoolGrowsByProduction ==
    [][~autoGrowEnabled
         => /\ lastOp'.op = "photosynthesis"
                 => /\ state'.resources.sugar = state.resources.sugar + Produced
                    /\ TotalStore(state'.nodes, Ids) = TotalStore(Nodes, Ids) + Produced
                    /\ \A id \in Ids : state'.nodes[id].sugarStore >= Nodes[id].sugarStore
            /\ (lastOp'.op \in SeqToSet(Phases) /\ lastOp'.op # "photosynthesis")
                 => state'.resources.sugar = state.resources.sugar
            /\ lastOp'.op = "stepSimulation"
                 => state'.resources.sugar >= state.resources.sugar]_vars

\* the photosynthesis step has just run on a plant whose leaf produces, and
\* the pool holds more than the starting plant's
C34_Witness ==
    /\ lastOp.op = "photosynthesis"
    /\ ~autoGrowEnabled
    /\ state.resources.sugar > createInitialPlant(createInitialState(1), 2).state.resources.sugar
    /\ \E id \in Ids : Nodes[id].type = "LEAF" /\ Nodes[id].sugarStore > 0

\* a whole step has raised the pool
StepRaisesPool ==
    /\ lastOp.op = "stepSimulation"
    /\ state.climate.tick = 1
    /\ state.resources.sugar > createInitialPlant(createInitialState(1), 2).state.resources.sugar

\* what updateParticles adds to the progress of marker p in one step
StepOf(p) == p.speed \div TICKS_PER_SECOND

\* the updateParticles steps a marker can take part in: the slowest marker
\* (speed 0.5 * PARTICLE_SPEED) leaves in the step that takes it to 1
MaxMarkerSteps ==
    LET slowest == MulU(500000, PARTICLE_SPEED) \div TICKS_PER_SECOND
    IN (SCALE + slowest - 1) \div slowest

\* the updateParticles steps marker p has survived
StepsSurvived(p) == p.progress \div StepOf(p)

\* every live marker has a speed within [0.5 * PARTICLE_SPEED, 3], has
\* advanced by speed / TICKS_PER_SECOND in each step it survived, and has
\* survived fewer than MaxMarkerSteps steps
MarkersYoung ==
    \A i \in DOMAIN particles :
       /\ particles[i].speed >= MulU(500000, PARTICLE_SPEED)
       /\ particles[i].speed <= 3 * SCALE
       /\ particles[i].progress = StepsSurvived(particles[i]) * StepOf(particles[i])
       /\ particles[i].progress < SCALE
       /\ StepsSurvived(particles[i]) < MaxMarkerSteps

\* every updateParticles step takes each marker that stays one step
\* further and leaves no marker behind that was not there
MarkersAdvance ==
    [][lastOp'.op = "particles"
         => /\ Len(particles') <= Len(particles)
            /\ \A j \in DOMAIN particles' :
                  \E i \in DOMAIN particles :
                     particles'[j] = [particles[i] EXCEPT !.progress = @ + StepOf(particles[i])]]_vars

\* C35: every marker is removed within MaxMarkerSteps (34) updateParticles
\* steps of its spawning, its speed being clamped to [0.6, 3] and its
\* progress advancing by speed / 20 per step; so once spawning has stopped,
\* with that many ticks still to run, the marker pool becomes empty
C35_MarkersFadeOut ==
    /\ []MarkersYoung
    /\ MarkersAdvance
    /\ (rollsLeft = 0 /\ state.climate.tick + MaxMarkerSteps < tickLimit) ~> (particles = <<>>)

\* a marker of the slowest kind is one step from leaving: it has survived
\* MaxMarkerSteps - 1 steps
C35_Witness ==
    /\ rollsLeft = 0
    /\ \E i \in DOMAIN particles :
          /\ particles[i].speed = MulU(500000, PARTICLE_SPEED)
          /\ StepsSurvived(particles[i]) = MaxMarkerSteps - 1

\* spawning has stopped with markers live, and later the pool is empty
PoolEmptied ==
    /\ rollsLeft = 0
    /\ particles = <<>>
    /\ lastOp.op = "particles"
    /\ state.climate.tick >= MaxMarkerSteps - 1

\* the callbacks of loop() the browser holds
PendingFrames == orphanFrames + (IF animationFrameId = "pending" THEN 1 ELSE 0)

\* C36: whatever startSimulation and stopSimulation calls have been made,
\* from outside or by a listener during a tick of a callback, at most one
\* pending callback will run the accumulator loop
C36_SingleCallbackChain == isRunning => PendingFrames <= 1

\* started and stopped from outside only, the loop has one callback pending
\* while it runs and none once it is stopped
SingleChainWithoutListener ==
    editsLeft = MaxObserverCalls => PendingFrames = (IF isRunning THEN 1 ELSE 0)

\* a listener has restarted the loop during a tick: the callback requested by
\* its startSimulation and the one requested by the interrupted loop() are
\* both pending, and the interrupted loop() has taken the step it ran off an
\* accumulator that was reset
TwoChains ==
    /\ isRunning
    /\ PendingFrames = 2
    /\ accumulator = 0 - TICK_INTERVAL

\* C37: the first callback that finds the store running after callbacks that
\* found it paused adds the time since the callback before it, scaled by the
\* speed multiplier, to the accumulator and nothing else: the steps it runs
\* and the remainder it keeps account for exactly that much, and no wall time
\* is ever left waiting to be counted while the loop runs
C37_PausedTimeDiscarded ==
    /\ [](isRunning => lastTickAge = 0)
    /\ [][(lastOp'.op = "loop" /\ frameKind = "paused" /\ isRunning /\ ~state.isPaused)
          => /\ frameKind' = "resumed"
             /\ accumulator' + TICK_INTERVAL * Len(events')
                  = accumulator + MulU(lastOp'.id, state.speedMultiplier)
             /\ Len(events') <= (accumulator + MulU(lastOp'.id, state.speedMultiplier)) \div TICK_INTERVAL
             /\ state'.climate.tick = state.climate.tick + Len(events')]_vars

\* the store was paused with 30 ms on the accumulator and a callback found it
\* paused after a wait; the first callback after un-pausing came 20 ms after
\* that one and has run the single step those 50 ms make up
C37_Witness ==
    /\ frameKind = "resumed"
    /\ lastOp.op = "loop"
    /\ lastOp.id = 20 * MS
    /\ state.speedMultiplier = SCALE
    /\ Len(events) = 1
    /\ accumulator = 0

\* the growth heuristic has just acted: its step changed the store
HeuristicActed == lastOp'.op = "autogrow" /\ lastOp'.type # "NONE" /\ state' # state

\* C38: the segment the growth heuristic attaches a new segment to, extends
\* or reinforces is active, and after its step no segment has more than
\* MAX_CHILDREN_PER_NODE children
C38_HeuristicActsOnActive ==
    [][HeuristicActed
       => /\ state.nodes[lastOp'.id].isActive
          /\ \A id \in DOMAIN state'.nodes :
                Len(state'.nodes[id].childrenIds) <= MAX_CHILDREN_PER_NODE]_vars

\* every action of the heuristic other than growing a root is on an active
\* segment, and no action takes a segment over the child limit
HeuristicOnActiveButRoots ==
    [][HeuristicActed
       => /\ state.nodes[lastOp'.id].isActive
             \/ (lastOp'.type = "GROW" /\ state'.nodes[lastOp'.ret].type = "ROOT")
          /\ \A id \in DOMAIN state'.nodes :
                Len(state'.nodes[id].childrenIds) <= MAX_CHILDREN_PER_NODE]_vars

\* the heuristic has grown a root on the dead root 2
RootOnDeadRoot ==
    /\ lastOp.op = "autogrow"
    /\ lastOp.type = "GROW"
    /\ lastOp.id = 2
    /\ ~state.nodes[2].isActive
    /\ lastOp.ret \in DOMAIN state.nodes
    /\ state.nodes[lastOp.ret].parentId = 2

\* the ids the step hands out: those of the segments it puts into the table
\* that were not there before
HandedOut == DOMAIN state'.nodes \ DOMAIN state.nodes

\* C39: an id that has been handed out is never handed out again: the counter
\* of generateId never goes back, every id in the table is below it and every
\* id a step hands out is at or above the counter the step found; hence the
\* endpoints of a live marker, handed out before it was spawned, are never
\* handed out to other segments
C39_IdsNeverReassigned ==
    /\ [](\A id \in Ids : id < nextId)
    /\ [](\A i \in DOMAIN particles :
             particles[i].fromNodeId < nextId /\ particles[i].toNodeId < nextId)
    /\ [][/\ nextId' >= nextId
          /\ \A id \in HandedOut : id >= nextId]_vars

\* without resetState the counter only goes up, whatever addNode, extendNode
\* and removeNode calls are made
CounterMonotoneWithoutReset ==
    [][lastOp'.op # "resetState"
       => /\ nextId' >= nextId
          /\ \A id \in HandedOut : id >= nextId /\ id < nextId']_vars

\* after a reset, addNode has handed out id 2 again, to a root, while a
\* marker spawned on the connection to the trunk that was segment 2 is live
MarkerOnReusedId ==
    /\ lastOp.op = "addNode"
    /\ lastOp.ret = 2
    /\ state.nodes[2].type = "ROOT"
    /\ \E i \in DOMAIN particles : 2 \in {particles[i].fromNodeId, particles[i].toNodeId}

\* C40: the cached count of every ordered (source, destination) pair in the
\* cache is the number of live markers on that pair and is not 0, and every
\* live marker's pair is in the cache
C40_CountsMatchMarkers ==
    /\ \A key \in DOMAIN connectionParticleCounts :
          /\ connectionParticleCounts[key] = MarkersOn(key[1], key[2])
          /\ connectionParticleCounts[key] > 0
    /\ \A i \in DOMAIN particles :
          <<particles[i].fromNodeId, particles[i].toNodeId>> \in DOMAIN connectionParticleCounts

\* updateParticles has just taken markers out of a pool that was at the
\* global cap: one pair is left with a single marker, and another pair, whose
\* markers are both gone, with no entry
C40_Witness ==
    /\ lastOp.op = "particles"
    /\ state.climate.tick >= MaxAged
    /\ 0 < Len(particles)
    /\ Len(particles) < MAX_TOTAL_PARTICLES
    /\ \E key \in DOMAIN connectionParticleCounts : connectionParticleCounts[key] = 1
    /\ \E id \in Ids :
          /\ Nodes[id].parentId # NULL
          /\ <<Nodes[id].parentId, id>> \notin DOMAIN connectionParticleCounts
          /\ <<id, Nodes[id].parentId>> \in DOMAIN connectionParticleCounts

\* clearParticles has emptied the pool and the cache
CacheCleared ==
    /\ lastOp.op = "clearParticles"
    /\ particles = <<>>
    /\ DOMAIN connectionParticleCounts = {}

====
